---- MODULE Spec2Model ----
(***************************************************************************)
(* Turn processing of the RouterAgent (services/agent/agent.py): the       *)
(* per-session store, process_message, the LLM_chat / tool_call / ack_end  *)
(* graph, the tool dispatcher with its loop detector, and the Redis        *)
(* snapshot path of initialize_session / cleanup_session.                  *)
(***************************************************************************)
EXTENDS Integers, Sequences, FiniteSets, TLC

(* ------------------------------------------------------------------ *)
(* Bounds of the model                                                 *)
(* ------------------------------------------------------------------ *)
\* process_message invocations in one behaviour that lets the session be
\* closed or cleaned up at any moment
MaxCalls == 1
\* turns one connection runs in a behaviour of the other configurations
MaxTurns == 2
\* tool calls the model may put in one structured reply
MaxBatch == 2
\* GRAPH_RECURSION_LIMIT as configured for the model (the code's default is 100)
RecursionLimit == 4
\* initialize_session invocations in one behaviour
MaxInits == 2
\* largest token count (and credit amount, in thousandths) given to the
\* credit functions when they are exercised on their own
MaxTokens == 2500
\* longest document text and longest list of insert operations tried
MaxText == 1
MaxOps == 2

(* ------------------------------------------------------------------ *)
(* Program constants                                                   *)
(* ------------------------------------------------------------------ *)
max_retries == 2
LoopWindow == 5
LoopThreshold == 3
TraceCap == 100
tokens_per_credit == 1000
relevance_threshold == 15
\* DEFAULT_MAX_ATTEMPTS of the scf_tasks tool
DEFAULT_MAX_ATTEMPTS == 3
\* tasks a session's context may hold
MaxTasks == 2

SessionIds == {"s1", "s2"}
Callers == {"c1", "c2"}
Users == {"u1", "u2"}
\* tokens one metered model call records (prompt + completion)
TokenAmounts == {600}

(* ------------------------------------------------------------------ *)
(* Tool names and tool groups of _single_tool_call                     *)
(* ------------------------------------------------------------------ *)
org_tools_single_arg == {"get_policies"}
document_detail_tools == {"read_document"}
template_edit_tools == {"edit_documentation_page"}
context_update_tools == {"update_context"}
onboarding_tools == {"configure_scf"}
scf_config_tools == {"scf_reset_filters", "scf_set_min_weight"}
tracked_tools == context_update_tools \cup scf_config_tools

\* tool_name_mapping: aliases the model sometimes uses
tool_name_mapping(name) ==
    IF name \in {"update_info", "update_context_info"} THEN "update_context" ELSE name

\* supported_tools for an entry point
supported_tools(entry_point) ==
    CASE entry_point = "onboarding" -> context_update_tools \cup onboarding_tools
      [] entry_point = "project_view" ->
            org_tools_single_arg \cup template_edit_tools \cup context_update_tools
                \cup document_detail_tools
      [] entry_point = "scf_config" ->
            scf_config_tools \cup org_tools_single_arg \cup context_update_tools
      [] OTHER -> org_tools_single_arg \cup context_update_tools

(* ------------------------------------------------------------------ *)
(* Values                                                              *)
(* ------------------------------------------------------------------ *)
\* A tool command [tool_name, arg1, ...]; NoCmd stands for None.
NoCmd == [name |-> "", args |-> <<>>]
MkCmd(n, a) == [name |-> n, args |-> a]

\* Messages are named by their content class.
\*   "user"     HumanMessage
\*   "text"     AIMessage: text_to_user of a structured reply
\*   "empty"    AIMessage with empty content
\*   "apology"  AIMessage: the generic apology of LLM_chat
\*   "verr"     AIMessage "tool_validation_error: ..."
\*   "execerr"  AIMessage "(cross mark) ...": a tool reports that it could not run
\*   "status"   AIMessage "[TOOL_STATUS] ..." (internal_tool_status)
\*   "loopwarn" AIMessage "[TOOL_STATUS][LOOP_WARNING] ..." (internal)
\*   "valok"    AIMessage "tool_validation_ok: ..."
\*   "toolmsg"  AIMessage with a tool's plain result text
\*   "welcome"  AIMessage: an onboarding welcome message of the endpoint
InternalMsgs == {"status", "loopwarn"}
HasContent(m) == m # "empty"
IsAIMessage(m) == m # "user"

\* The session context: the keys the turn logic and the modelled tools use.
\* entry_point "" stands for a context without that key.
NoContext ==
    [user_id |-> "", org_id |-> "", entry_point |-> "",
     documentation_structure |-> 0, profile |-> 0, scf_min_weight |-> 0,
     scf_redirected |-> FALSE]

\* The session dict of self.sessions (absent keys read as their defaults).
NewSession ==
    [messages |-> <<>>, tokens_used |-> 0, credits_milli |-> 0,
     context |-> NoContext, pending_interrupt |-> FALSE,
     tool_call_traces |-> <<>>]

\* The channels of AgentState the routing and the tools read or write.
EmptyState ==
    [messages |-> <<>>, context |-> NoContext, tokens_used |-> 0,
     tool_call_traces |-> <<>>, has_tool_call |-> FALSE,
     requested_tool |-> NoCmd, requested_tools |-> <<>>,
     has_workflow |-> FALSE, tool_should_loopback |-> TRUE]

\* A node's return value: the keys it holds, and their values.
EmptyUpdate ==
    [keys |-> {}, messages |-> <<>>, context |-> NoContext, tokens_used |-> 0,
     tool_call_traces |-> <<>>, has_tool_call |-> FALSE,
     requested_tool |-> NoCmd, requested_tools |-> <<>>,
     has_workflow |-> FALSE, tool_should_loopback |-> TRUE,
     tool_error |-> FALSE]

LastN(s, n) == IF Len(s) <= n THEN s ELSE SubSeq(s, Len(s) - n + 1, Len(s))

SeqToSet(s) == {s[i] : i \in 1..Len(s)}

(* ------------------------------------------------------------------ *)
(* _single_tool_call: loop detection, traces, validation errors        *)
(* ------------------------------------------------------------------ *)
\* state.get("context", {}).get("entry_point", "project_view")
entry_point_of(ctx) == IF ctx.entry_point = "" THEN "project_view" ELSE ctx.entry_point

\* the loop "for t in reversed(recent)": trailing entries with equal args
RECURSIVE same_args_count(_, _)
same_args_count(recent, args) ==
    IF recent = <<>> THEN 0
    ELSE IF recent[Len(recent)].args # args THEN 0
    ELSE 1 + same_args_count(SubSeq(recent, 1, Len(recent) - 1), args)

\* recent = [t for t in existing_traces[-5:] if t.get("tool") == name]
recent_traces(name, existing) ==
    SelectSeq(LastN(existing, LoopWindow), LAMBDA t : t.tool = name)

loop_count(name, args, existing) ==
    IF name # "" /\ name \in tracked_tools /\ existing # <<>>
       /\ recent_traces(name, existing) # <<>>
    THEN same_args_count(recent_traces(name, existing), args) + 1
    ELSE 1

loop_detected(name, args, existing) ==
    loop_count(name, args, existing) >= LoopThreshold

\* a cap that keeps the oldest entries
cap_keeps_oldest(traces) ==
    IF Len(traces) <= TraceCap THEN traces ELSE SubSeq(traces, 1, TraceCap)

\* new_traces[-100:]
cap_traces(traces) == LastN(traces, TraceCap)

attach_traces_and_loop_hint(update, name, args, status, existing) ==
    IF name # "" /\ name \in tracked_tools
    THEN LET new_traces ==
                 cap_traces(existing \o <<[tool |-> name, args |-> args, status |-> status]>>)
             u1 == [update EXCEPT !.tool_call_traces = new_traces,
                                  !.keys = @ \cup {"tool_call_traces"}]
         IN  IF loop_detected(name, args, existing)
             THEN [u1 EXCEPT !.messages = @ \o <<"loopwarn">>,
                             !.keys = @ \cup {"messages"}]
             ELSE u1
    ELSE update

\* {"messages": [...], "has_tool_call": False, "requested_tool": None}
tool_update(msgs) ==
    [EmptyUpdate EXCEPT !.keys = {"messages", "has_tool_call", "requested_tool"},
                        !.messages = msgs]

with_loopback(update, b) ==
    [update EXCEPT !.keys = @ \cup {"tool_should_loopback"},
                   !.tool_should_loopback = b]

with_context(update, ctx) ==
    [update EXCEPT !.keys = @ \cup {"context"}, !.context = ctx]

\* a validation-error delta that lets the router loop back
error_with_loopback(name, args, existing) ==
    attach_traces_and_loop_hint(
        [with_loopback(tool_update(<<"verr">>), TRUE)
             EXCEPT !.keys = @ \cup {"tool_error"}, !.tool_error = TRUE],
        name, args, "error", existing)

\* error(msg): the validation-error delta
error(name, args, existing) ==
    attach_traces_and_loop_hint(
        [with_loopback(tool_update(<<"verr">>), FALSE)
             EXCEPT !.keys = @ \cup {"tool_error"}, !.tool_error = TRUE],
        name, args, "error", existing)

\* a dispatcher that skips the entry-point check
is_supported_anywhere(name, entry_point) == TRUE

\* "if name not in supported_tools" reads as ~is_supported
is_supported(name, entry_point) == name \in supported_tools(entry_point)

(* ------------------------------------------------------------------ *)
(* _single_tool_call: dispatch                                         *)
(* ------------------------------------------------------------------ *)
\* what the environment lets a tool's backend / writer step do
ExecOutcomes == {"ok", "fail", "exc"}
\* argument strings float() accepts within 0..10
NumericArgs == {"5"}

\* llm: a metered model call returned; refresh: refresh_documentation_structure
\* was called; snapshot: the state saved by _save_session_snapshot_from_state;
\* cancelled: the metered client raised CancelledError
NoEffects ==
    [llm |-> FALSE, refresh |-> FALSE, snapshot |-> <<>>, cancelled |-> FALSE]

\* What one _single_tool_call did: its delta, the branch that handled the
\* call ("" when the call was rejected before any per-tool branch), and the
\* collaborators the branch used.  errored: the delta reports an error to
\* the model; seen / left: the context the call read and the context the
\* state holds once its delta is merged.
tool_result(update, name, args, entry_point, handler, eff, ctx) ==
    [update |-> update, name |-> name, args |-> args, handler |-> handler,
     entry_point |-> entry_point,
     failed |-> update.tool_error,
     errored |-> update.tool_error \/ "execerr" \in SeqToSet(update.messages),
     seen |-> ctx,
     left |-> IF "context" \in update.keys THEN update.context ELSE ctx,
     warned |-> "loopwarn" \in SeqToSet(update.messages),
     tracked |-> name # "" /\ name \in tracked_tools,
     llm |-> eff.llm, refresh |-> eff.refresh, snapshot |-> eff.snapshot,
     cancelled |-> eff.cancelled]

\* apply_update_context: context.update(updates)
apply_update_context(ctx) == [ctx EXCEPT !.profile = 1]
\* apply_min_weight: context["scf_min_weight"] = min_weight
apply_min_weight(ctx) == [ctx EXCEPT !.scf_min_weight = 5]

\* The per-tool branch of _single_tool_call that handles the call.  kind:
\* "error" (return error(...)), "traced" (the delta goes through
\* _attach_traces_and_loop_hint with status "success"), "exec_error" (the
\* same with status "error"), "plain" (returned as is) or "cancelled"
\* (the metered client raised CancelledError inside the branch).
Branch(kind, handler, update, eff) ==
    [kind |-> kind, handler |-> handler, update |-> update, eff |-> eff]

tool_branch(state, name, args, ctx, entry_point, o, closed) ==
    IF name = "" THEN Branch("error", "", EmptyUpdate, NoEffects)
    ELSE IF ~is_supported(name, entry_point)
    THEN Branch("error", "", EmptyUpdate, NoEffects)
    ELSE IF name \in org_tools_single_arg THEN
        IF Len(args) < 1 THEN Branch("error", name, EmptyUpdate, NoEffects)
        ELSE Branch("plain", name, tool_update(<<"valok">>), NoEffects)
    ELSE IF name \in document_detail_tools THEN
        \* no current_doc in the context: the id comes from args[0]
        IF ctx.org_id = "" \/ Len(args) < 1 \/ o # "ok"
        THEN Branch("exec_error", name,
                    with_loopback(tool_update(<<"execerr">>), TRUE), NoEffects)
        ELSE Branch("traced", name,
                    with_loopback(tool_update(<<"toolmsg">>), TRUE), NoEffects)
    ELSE IF name \in template_edit_tools THEN
        IF Len(args) < 3 THEN Branch("error", name, EmptyUpdate, NoEffects)
        ELSE IF ctx.org_id = "" THEN Branch("error", name, EmptyUpdate, NoEffects)
        ELSE IF closed
        THEN Branch("cancelled", name, EmptyUpdate, [NoEffects EXCEPT !.cancelled = TRUE])
        ELSE IF o = "ok"
        THEN Branch("plain", name, tool_update(<<"toolmsg">>),
                    [NoEffects EXCEPT !.llm = TRUE, !.refresh = TRUE])
        ELSE IF o = "fail"
        THEN Branch("plain", name, tool_update(<<"toolmsg">>), NoEffects)
        ELSE Branch("error", name, EmptyUpdate, NoEffects)
    ELSE IF name \in context_update_tools THEN
        IF Len(args) < 1 THEN Branch("error", name, EmptyUpdate, NoEffects)
        ELSE IF closed
        THEN Branch("cancelled", name, EmptyUpdate, [NoEffects EXCEPT !.cancelled = TRUE])
        ELSE IF o = "ok"
        THEN Branch("traced", name,
                    with_loopback(with_context(tool_update(<<"status">>),
                                               apply_update_context(ctx)), FALSE),
                    [NoEffects EXCEPT !.llm = TRUE])
        ELSE IF o = "fail"
        THEN Branch("traced", name, with_loopback(tool_update(<<"status">>), FALSE),
                    NoEffects)
        ELSE Branch("error", name, EmptyUpdate, NoEffects)
    ELSE IF name = "scf_set_min_weight" THEN
        IF Len(args) < 1 \/ args[1] \notin NumericArgs
        THEN Branch("error", name, EmptyUpdate, NoEffects)
        ELSE Branch("traced", name,
                    with_loopback(with_context(tool_update(<<"status">>),
                                               apply_min_weight(ctx)), FALSE),
                    NoEffects)
    ELSE IF name = "scf_reset_filters" THEN
        IF Len(args) > 0 THEN Branch("error", name, EmptyUpdate, NoEffects)
        ELSE Branch("traced", name,
                    with_loopback(with_context(tool_update(<<"status">>), ctx), TRUE),
                    NoEffects)
    ELSE IF name = "configure_scf"
    THEN Branch("plain", name, with_loopback(tool_update(<<>>), FALSE),
                [NoEffects EXCEPT !.snapshot = <<state>>])
    ELSE Branch("error", "", EmptyUpdate, NoEffects)

\* the delta a branch returns: error(...), the traced delta, or the delta
branch_update(b, name, args, existing) ==
    IF b.kind = "error" THEN error(name, args, existing)
    ELSE IF b.kind = "traced"
    THEN attach_traces_and_loop_hint(b.update, name, args, "success", existing)
    ELSE IF b.kind = "exec_error"
    THEN attach_traces_and_loop_hint(b.update, name, args, "error", existing)
    ELSE b.update

finish_tool_call(b, name, args, entry_point, existing, ctx) ==
    tool_result(branch_update(b, name, args, existing), name, args, entry_point,
                b.handler, b.eff, ctx)

single_tool_call(state, o, closed) ==
    finish_tool_call(
        tool_branch(state, tool_name_mapping(state.requested_tool.name),
                    state.requested_tool.args, state.context,
                    entry_point_of(state.context), o, closed),
        tool_name_mapping(state.requested_tool.name), state.requested_tool.args,
        entry_point_of(state.context), state.tool_call_traces, state.context)

(* ------------------------------------------------------------------ *)
(* tool_call: single call or batch                                     *)
(* ------------------------------------------------------------------ *)
\* _merge_states(base, delta) on a node delta
merge_states(base, delta) ==
    [keys |-> base.keys \cup delta.keys,
     messages |-> IF "messages" \in delta.keys
                  THEN base.messages \o delta.messages ELSE base.messages,
     tool_call_traces |->
         IF "tool_call_traces" \in delta.keys
         THEN cap_traces(base.tool_call_traces \o delta.tool_call_traces)
         ELSE base.tool_call_traces,
     context |-> IF "context" \in delta.keys THEN delta.context ELSE base.context,
     tokens_used |-> IF "tokens_used" \in delta.keys
                     THEN delta.tokens_used ELSE base.tokens_used,
     has_tool_call |-> IF "has_tool_call" \in delta.keys
                       THEN delta.has_tool_call ELSE base.has_tool_call,
     requested_tool |-> IF "requested_tool" \in delta.keys
                        THEN delta.requested_tool ELSE base.requested_tool,
     requested_tools |-> IF "requested_tools" \in delta.keys
                         THEN delta.requested_tools ELSE base.requested_tools,
     has_workflow |-> IF "has_workflow" \in delta.keys
                      THEN delta.has_workflow ELSE base.has_workflow,
     tool_should_loopback |-> IF "tool_should_loopback" \in delta.keys
                              THEN delta.tool_should_loopback
                              ELSE base.tool_should_loopback,
     tool_error |-> IF "tool_error" \in delta.keys
                    THEN delta.tool_error ELSE base.tool_error]

\* a state dict seen as a delta holding every channel, and back
state_as_update(state) ==
    [keys |-> {"messages", "context", "tokens_used", "tool_call_traces",
               "has_tool_call", "requested_tool", "requested_tools",
               "has_workflow", "tool_should_loopback"},
     messages |-> state.messages, context |-> state.context,
     tokens_used |-> state.tokens_used,
     tool_call_traces |-> state.tool_call_traces,
     has_tool_call |-> state.has_tool_call,
     requested_tool |-> state.requested_tool,
     requested_tools |-> state.requested_tools,
     has_workflow |-> state.has_workflow,
     tool_should_loopback |-> state.tool_should_loopback,
     tool_error |-> FALSE]

update_as_state(u) ==
    [messages |-> u.messages, context |-> u.context, tokens_used |-> u.tokens_used,
     tool_call_traces |-> u.tool_call_traces, has_tool_call |-> u.has_tool_call,
     requested_tool |-> u.requested_tool, requested_tools |-> u.requested_tools,
     has_workflow |-> u.has_workflow, tool_should_loopback |-> u.tool_should_loopback]

\* working_state = _merge_states(working_state, single_update)
merge_into_state(state, delta) ==
    update_as_state(merge_states(state_as_update(state), delta))

\* the "for idx, cmd in enumerate(normalized_batch)" loop; batch_step is
\* the part of an iteration that follows the call
RECURSIVE batch_loop(_, _, _, _, _, _, _)
RECURSIVE batch_step(_, _, _, _, _, _, _, _)
batch_step(ws, aggregated_update, batch, idx, os, closed, calls, r) ==
    IF r.cancelled \/ r.update.tool_error \/ batch[idx].name = "configure_scf"
    THEN [update |-> merge_states(aggregated_update, r.update),
          calls |-> Append(calls, r)]
    ELSE batch_loop(merge_into_state(ws, r.update),
                    merge_states(aggregated_update, r.update),
                    batch, idx + 1, os, closed, Append(calls, r))

per_tool_state(working_state, cmd) ==
    [working_state EXCEPT !.requested_tool = cmd, !.requested_tools = <<>>]

batch_loop(working_state, aggregated_update, batch, idx, os, closed, calls) ==
    IF idx > Len(batch) THEN [update |-> aggregated_update, calls |-> calls]
    ELSE batch_step(per_tool_state(working_state, batch[idx]), aggregated_update,
                    batch, idx, os, closed, calls,
                    single_tool_call(per_tool_state(working_state, batch[idx]),
                                     os[idx], closed))

\* "After a batch, clear tool flags so tools are not re-run"
clear_tool_flags(u) ==
    [u EXCEPT !.keys = @ \cup {"has_tool_call", "requested_tool", "requested_tools"},
              !.has_tool_call = IF "has_tool_call" \in u.keys THEN @ ELSE FALSE,
              !.requested_tool = IF "requested_tool" \in u.keys THEN @ ELSE NoCmd,
              !.requested_tools = <<>>]

\* what tool_call returns on the single-call path and after a batch
single_result(r) == [update |-> r.update, calls |-> <<r>>]

batch_result(b) == [update |-> clear_tool_flags(b.update), calls |-> b.calls]

\* tool_call(state): the node's delta and the calls it executed, in order
tool_call(state, os, closed) ==
    IF Len(state.requested_tools) <= 1
    THEN single_result(
             single_tool_call(IF state.requested_tools = <<>> THEN state
                              ELSE per_tool_state(state, state.requested_tools[1]),
                              os[1], closed))
    ELSE batch_result(batch_loop(state, EmptyUpdate, state.requested_tools, 1, os,
                                 closed, <<>>))

(* ------------------------------------------------------------------ *)
(* The graph: channels, routing, LLM_chat's delta, the stream fold      *)
(* ------------------------------------------------------------------ *)
\* AgentState channels: messages is Annotated[List, add]; every other
\* declared channel keeps the last value written; keys that AgentState
\* does not declare (tool_error, task_update) are dropped.
apply_update(state, u) ==
    [messages |-> IF "messages" \in u.keys
                  THEN state.messages \o u.messages ELSE state.messages,
     context |-> IF "context" \in u.keys THEN u.context ELSE state.context,
     tokens_used |-> IF "tokens_used" \in u.keys
                     THEN u.tokens_used ELSE state.tokens_used,
     tool_call_traces |-> IF "tool_call_traces" \in u.keys
                          THEN u.tool_call_traces ELSE state.tool_call_traces,
     has_tool_call |-> IF "has_tool_call" \in u.keys
                       THEN u.has_tool_call ELSE state.has_tool_call,
     requested_tool |-> IF "requested_tool" \in u.keys
                        THEN u.requested_tool ELSE state.requested_tool,
     requested_tools |-> IF "requested_tools" \in u.keys
                         THEN u.requested_tools ELSE state.requested_tools,
     has_workflow |-> IF "has_workflow" \in u.keys
                      THEN u.has_workflow ELSE state.has_workflow,
     tool_should_loopback |-> IF "tool_should_loopback" \in u.keys
                              THEN u.tool_should_loopback
                              ELSE state.tool_should_loopback]

\* A fresh input on a thread: the input's keys are written over the
\* checkpointed channel values and the run starts at the entry point.
input_state(ckpt, pass_state) ==
    [ckpt EXCEPT !.messages = ckpt.messages \o pass_state.messages,
                 !.context = pass_state.context,
                 !.tokens_used = pass_state.tokens_used,
                 !.tool_call_traces = pass_state.tool_call_traces]

\* a router that looks at the tool flag first
route_tool_first(s) ==
    IF s.has_tool_call THEN "tool_call"
    ELSE IF s.has_workflow THEN "workflow" ELSE "ack_end"

route_from_classify(s) ==
    IF s.has_workflow THEN "workflow"
    ELSE IF s.has_tool_call THEN "tool_call" ELSE "ack_end"

\* a router that reads the flag the wrong way round
route_loopback_inverted(s) ==
    IF s.tool_should_loopback THEN "ack_end" ELSE "LLM_chat"

\* a router that always loops back to the model
route_to_model_turn(s) == "LLM_chat"

route_from_tool_call(s) ==
    IF s.tool_should_loopback THEN "LLM_chat" ELSE "ack_end"

\* an LLM_chat that does not reset the flag
LLM_chat_keep(state) == state

\* state["tool_should_loopback"] = True, the first statement of LLM_chat
LLM_chat_reset(state) == [state EXCEPT !.tool_should_loopback = TRUE]

\* LLM_chat's return value "out" for a reply with text and tool commands
LLM_chat_out(state, response_text, effective_tool_cmds, total_tokens) ==
    LET out == [EmptyUpdate EXCEPT
                    !.keys = {"messages", "tokens_used", "tool_should_loopback"},
                    !.messages = <<response_text>>,
                    !.tokens_used = state.tokens_used + total_tokens,
                    !.tool_should_loopback = TRUE]
    IN  IF effective_tool_cmds # <<>>
        THEN [out EXCEPT !.keys = @ \cup {"has_tool_call", "requested_tool",
                                         "requested_tools"},
                         !.has_tool_call = TRUE,
                         !.requested_tool = effective_tool_cmds[1],
                         !.requested_tools = effective_tool_cmds]
        ELSE out

\* LLM_chat's return value when the decision may also name a workflow:
\* "if workflow_name: out.update({"has_workflow": True, ...})
\*  elif tool_name: out.update(tool_payload)"
LLM_chat_decision(state, response_text, workflow_name, effective_tool_cmds, total_tokens) ==
    IF workflow_name # ""
    THEN [LLM_chat_out(state, response_text, <<>>, total_tokens) EXCEPT
              !.keys = @ \cup {"has_workflow"},
              !.has_workflow = TRUE]
    ELSE LLM_chat_out(state, response_text, effective_tool_cmds, total_tokens)

\* workflow_node's return value: a dummy message, "has_workflow": False
workflow_node_out ==
    [EmptyUpdate EXCEPT !.keys = {"messages", "has_workflow"},
                        !.messages = <<"text">>,
                        !.has_workflow = FALSE]

\* "for m in reversed(msgs): if isinstance(m, AIMessage) and m.content"
RECURSIVE last_ai_of(_)
last_ai_of(msgs) ==
    IF msgs = <<>> THEN "NONE"
    ELSE IF IsAIMessage(msgs[Len(msgs)]) /\ HasContent(msgs[Len(msgs)])
         THEN msgs[Len(msgs)]
    ELSE last_ai_of(SubSeq(msgs, 1, Len(msgs) - 1))

\* one "for node_name, node_update in event.items()" iteration
fold_last_ai(last_ai, node_name, node_update) ==
    IF "messages" \in node_update.keys
    THEN IF node_update.messages # <<>>
         THEN IF last_ai_of(node_update.messages) # "NONE"
              THEN last_ai_of(node_update.messages) ELSE last_ai
         ELSE IF node_name = "tool_call" THEN "NONE" ELSE last_ai
    ELSE last_ai

fold_suppress(suppress, node_name, node_update) ==
    suppress \/ (node_name = "tool_call"
                 /\ "tool_should_loopback" \in node_update.keys
                 /\ ~node_update.tool_should_loopback)

\* a handler that answers with the last assistant text instead
recursion_error_last_ai(last_ai) == last_ai

\* the text process_message returns when GraphRecursionError is caught
recursion_error_response(last_ai) == "limitmsg"

\* Credits are kept in thousandths of a credit, so that tokens / 1000 is
\* exact.
\* a conversion that counts whole thousands of tokens only
credits_per_whole_thousand(tokens_used) ==
    (tokens_used \div tokens_per_credit) * 1000

\* calculate_credits_consumed: tokens_used / self.tokens_per_credit
calculate_credits_consumed(tokens_used) == (tokens_used * 1000) \div tokens_per_credit

\* a payload that rounds down
credits_rounded_down(credits_milli) ==
    (IF credits_milli > 0 THEN credits_milli ELSE 0) \div 1000

\* int(math.ceil(max(credits_consumed, 0.0))) of update_user_credits
credits_to_subtract(credits_milli) ==
    ((IF credits_milli > 0 THEN credits_milli ELSE 0) + 999) \div 1000

\* update_user_credits: the "credits" payload of the PATCH it sends to the
\* subtract endpoint, <<>> when it returns without sending one
update_user_credits(session_context, credits_milli) ==
    IF session_context.org_id = "" THEN <<>>
    ELSE IF credits_to_subtract(credits_milli) <= 0 THEN <<>>
    ELSE <<credits_to_subtract(credits_milli)>>

(* ------------------------------------------------------------------ *)
(* Snapshots                                                           *)
(* ------------------------------------------------------------------ *)
serialize_message(m) ==
    [type |-> IF m = "user" THEN "human" ELSE "ai", content |-> m]
deserialize_message(d) ==
    IF d.type \in {"human", "user"} THEN "user"
    ELSE IF d.type \in {"ai", "assistant"} THEN d.content
    ELSE "user"

serialize_messages(msgs) == [i \in 1..Len(msgs) |-> serialize_message(msgs[i])]

deserialize_messages(data) == [i \in 1..Len(data) |-> deserialize_message(data[i])]

NoSnapshot ==
    [user_id |-> "", messages |-> <<>>, context |-> NoContext, tokens_used |-> 0,
     credits_milli |-> 0, tool_call_traces |-> <<>>]

\* the snapshot dict of _save_session_snapshot_from_session
snapshot_from_session(session) ==
    [user_id |-> session.context.user_id,
     messages |-> serialize_messages(session.messages),
     context |-> session.context, tokens_used |-> session.tokens_used,
     credits_milli |-> session.credits_milli,
     tool_call_traces |-> session.tool_call_traces]

\* the snapshot dict of _save_session_snapshot_from_state
snapshot_from_state(state) ==
    [user_id |-> state.context.user_id,
     messages |-> serialize_messages(state.messages),
     context |-> state.context, tokens_used |-> state.tokens_used,
     credits_milli |-> 0,
     tool_call_traces |-> state.tool_call_traces]

\* the session dict _load_session_snapshot rebuilds
load_session_snapshot(snapshot) ==
    [messages |-> deserialize_messages(snapshot.messages),
     tokens_used |-> snapshot.tokens_used,
     credits_milli |-> snapshot.credits_milli,
     context |-> snapshot.context, pending_interrupt |-> FALSE,
     tool_call_traces |-> snapshot.tool_call_traces]

\* a comparison that accepts two missing ids
resume_user_equal(snapshot_user_id, fresh_user_id) ==
    snapshot_user_id = fresh_user_id

\* "not snapshot_user_id or not fresh_user_id or str(..) != str(..)" negated
resume_user_matches(snapshot_user_id, fresh_user_id) ==
    snapshot_user_id # "" /\ fresh_user_id # "" /\ snapshot_user_id = fresh_user_id

(* ------------------------------------------------------------------ *)
(* State                                                               *)
(* ------------------------------------------------------------------ *)
VARIABLES
    cfg,              \* which input alphabet the behaviour draws from
    sessions,         \* self.sessions: values of the session dicts
    live,             \* the keys of self.sessions
    closed_sessions,  \* self.closed_sessions
    session_locks,    \* self.session_locks: holder of each lock, "" when free
    turn_tokens,      \* self._turn_tokens
    redis,            \* agent_session:<id> values in Redis
    redis_keys,       \* the agent_session:<id> keys present in Redis
    checkpoint,       \* the checkpointer: channel values per thread id
    proc,             \* one process_message activation per caller
    ncalls,           \* process_message invocations so far
    ninits,           \* initialize_session invocations so far
    last_tracked,     \* per session: the last tracked call and its run length
    init_log          \* what the last initialize_session did

vars == <<cfg, sessions, live, closed_sessions, session_locks, turn_tokens,
          redis, redis_keys, checkpoint, proc, ncalls, ninits, last_tracked,
          init_log>>

\* An activation of process_message.  pc is the next step: "decide" (inside
\* the first lock block), "stream" (astream about to start), a node name,
\* "llm_call" (inside LLM_chat, before a model call), "post" (stream ended),
\* "commit" (inside the second lock block), "credits", "done".
\* The fields from last_node on record what the turn did: the node that ran
\* last and its delta, whether LLM_chat found the flag false on entry,
\* whether the turn wrote the session outside its commit, the calls of the
\* last tool_call, whether a call failed validation and whether LLM_chat
\* ran after that.  session0 is the Session when the turn started,
\* fresh_thread whether the thread had no checkpoint then, committed the
\* Session the commit block wrote, metered the tokens the turn's model
\* calls recorded, tool_requested whether LLM_chat asked for a tool,
\* tool_delta the delta of the turn's last tool_call and llm_after_tool
\* whether LLM_chat started after it.  op and snapshot belong to the
\* operations that run when the connection ends: which one is running, and
\* the copy of the session it took inside its lock block; save_attempted and
\* save_ok say whether its write was tried and whether it succeeded, and
\* known_after whether the session id was still a key of self.sessions when
\* cleanup_session returned.  was_known and
\* was_closed are what the first lock block found, sessions_kept whether the
\* activation has left self.sessions as it was.  sent_closed is whether a
\* model request went out while the session was marked closed, and
\* cancel_recorded the tokens recorded by the call that was cancelled,
\* cancel_closed whether the session was marked closed at that call.
\* ran is the node that started last, after the node that had run before it
\* and saw the routing flags of the state it started from.
NoFlags == [has_workflow |-> FALSE, has_tool_call |-> FALSE,
            tool_should_loopback |-> TRUE]

\* ev is the activation of evaluate_single_project_document: what the read,
\* the writer and the update returned, the helpers called so far in order
\* (log) and the returned dict (result).  None is "" for a string and -1 for
\* a status code; evidence is "absent" when the result has no such entry.
NoResult == [success |-> FALSE, error |-> "", status_code |-> -1]
NoEvalResult ==
    [success |-> FALSE, error |-> "", status_code |-> -1,
     relevance_score |-> -1, updated |-> FALSE, evidence |-> "absent",
     evidence_note |-> ""]
\* ins is a use of _apply_insert_operations: its two arguments, the text
\* the first application returned, the text a second application to that
\* text returned, and how many applications have run.
NoInsert ==
    [existing_content |-> <<>>, insert_operations |-> <<>>, first |-> <<>>,
     second |-> <<>>, runs |-> 0]
NoEval ==
    [document_id |-> "", full_result |-> NoResult, eval_success |-> FALSE,
     score_int |-> 0,
     update_result |-> NoResult, log |-> <<>>, result |-> NoEvalResult]

\* context["scf_tasks"], context["scf_current_task_id"] ("" for None), and
\* what the last scf_tasks call did: its payload, the task it named as it
\* was before the call, the delta's tool_should_loopback ("absent" when the
\* key is not written) and the node the router picks after it
NoTask == [id |-> "", status |-> "", attempts |-> 0, max_attempts |-> 0]
NoPayload == [action |-> "", task_id |-> "", title |-> ""]
NoScf ==
    [scf_tasks |-> <<>>, scf_current_task_id |-> "", payload |-> NoPayload,
     before |-> NoTask, rejected |-> FALSE, loopback |-> "absent", next |-> ""]

Proc0 ==
    [pc |-> "idle", sid |-> "", mode |-> "normal", st |-> EmptyState,
     steps |-> 0, attempt |-> 0, last_ai |-> "NONE", suppress |-> FALSE,
     ret |-> "NONE", outcome |-> "", tokens |-> 0, turn_credits |-> 0, credit_request |-> <<>>,
     last_node |-> "", delta |-> EmptyUpdate,
     session0 |-> NewSession, fresh_thread |-> FALSE, committed |-> NewSession,
     metered |-> 0, tool_requested |-> FALSE,
     tool_delta |-> EmptyUpdate, llm_after_tool |-> FALSE,
     op |-> "", snapshot |-> NoSnapshot,
     save_attempted |-> FALSE, save_ok |-> FALSE, known_after |-> FALSE,
     ran |-> "", after |-> "", saw |-> NoFlags, ev |-> NoEval,
     ins |-> NoInsert,
     was_known |-> FALSE, was_closed |-> FALSE, sessions_kept |-> TRUE,
     sent_closed |-> FALSE, cancel_recorded |-> 0, cancel_closed |-> FALSE,
     stale_entry |-> FALSE, wrote |-> FALSE, calls |-> <<>>, batch |-> <<>>,
     traces_before |-> <<>>, asked |-> <<>>, llm_failed |-> 0, said |-> {},
     prev_abnormal |-> 0, scf |-> NoScf,
     failed_call |-> FALSE, llm_after_fail |-> FALSE]

\* what a resume that succeeded read and built
NoResume ==
    [resume |-> "", user |-> "", entry_point |-> "", snapshot |-> NoSnapshot,
     restored |-> NewSession, stored_after |-> NoSnapshot]

NoInit ==
    [sid |-> "", resume |-> "", found |-> FALSE, snapshot_user_id |-> "",
     fresh_user_id |-> "", raised |-> FALSE, delete_called |-> FALSE,
     delete_ok |-> FALSE, snapshot_left |-> FALSE, sessions_untouched |-> TRUE,
     lock_holder |-> "", resumed |-> NoResume, prev_resumed |-> NoResume,
     welcome_sent |-> FALSE]

NoTracked == [tool |-> "", args |-> <<>>, run |-> 0]

(* ------------------------------------------------------------------ *)
(* Inputs                                                              *)
(* ------------------------------------------------------------------ *)
uc_a == MkCmd("update_context", <<"a">>)
ui_a == MkCmd("update_info", <<"a">>)
uc_0 == MkCmd("update_context", <<>>)
rf == MkCmd("scf_reset_filters", <<>>)
mw_5 == MkCmd("scf_set_min_weight", <<"5">>)
gp_a == MkCmd("get_policies", <<"a">>)
ed_3 == MkCmd("edit_documentation_page", <<"a", "a", "a">>)
cs == MkCmd("configure_scf", <<>>)
rd_a == MkCmd("read_document", <<"a">>)
bogus == MkCmd("bogus_tool", <<"a">>)

\* tool_calls lists a structured reply may carry
AllBatches ==
    {<<uc_a>>, <<rf>>, <<gp_a>>, <<bogus>>,
     <<rf, rf>>, <<mw_5, rf>>, <<gp_a, uc_0>>, <<rf, rf, rf>>}

ToolBatches == {b \in AllBatches : Len(b) <= MaxBatch}

\* batches in which a call fails, succeeds or configures before another
StopBatches ==
    {<<rd_a, gp_a>>, <<gp_a, rd_a>>, <<uc_a, gp_a>>, <<uc_0, gp_a>>, <<cs, uc_a>>}

\* structured replies: text_to_user (stripped) and tool_calls
Reply(text, tools) == [text |-> text, tools |-> tools]

\* The configurations share the actions below and differ in the inputs
\* they draw:
\*   "api"      one caller; mark_session_closed and cleanup_session may run
\*              while a turn is in flight; model replies may fail to parse;
\*              Redis and the backend may fail
\*   "overlap"  two callers send messages to the same session
\*   "tools"    one connection, one turn after the other, with the tool
\*              layer's inputs
\*   "pair"     two connections, each with its own session, whose turns
\*              run at the same time
\*   "locks"    one connection, with the operations that run when it ends
\*   "resume"   a session is used and saved, and new connections resume
\*              its snapshot
\*   "batch"    one connection whose model replies carry batches of calls
\*              or no text
\*   "history"  one connection; the endpoint sends the onboarding welcome
\*              messages before it reads the first message
\*   "stale"    one connection, one turn after the other, under an odd
\*              step limit; model replies may fail to parse
Replies(c) ==
    IF c = "tools"
    THEN {Reply("text", b) : b \in ToolBatches \cup {<<>>}}
    ELSE IF c = "api"
    THEN {Reply("text", <<>>), Reply("text", <<ui_a>>), Reply("text", <<ed_3>>)}
    ELSE IF c = "pair"
    THEN {Reply("text", <<>>), Reply("text", <<uc_a>>), Reply("text", <<gp_a>>)}
    ELSE IF c = "batch"
    THEN {Reply("text", b) : b \in StopBatches \cup {<<>>, <<rf>>}}
             \cup {Reply("empty", <<>>)}
    ELSE IF c = "stale"
    THEN {Reply("text", <<>>), Reply("text", <<gp_a>>)}
    ELSE {Reply("text", <<>>), Reply("empty", <<cs>>), Reply("text", <<gp_a>>)}

CallersOf(c) == IF c \in {"overlap", "pair"} THEN Callers ELSE {"c1"}
SessionsOf(c) == IF c \in {"pair", "resume"} THEN SessionIds ELSE {"s1"}
\* the session a connection sends its messages to ("session_id = str(uuid4())"
\* per websocket)
SessionsFor(c, caller) ==
    IF c = "pair" THEN {IF caller = "c1" THEN "s1" ELSE "s2"}
    ELSE IF c = "resume" THEN {"s2"}
    ELSE SessionsOf(c)
UsersOf(c) == IF c = "api" THEN Users \cup {""} ELSE {"u1"}
EntryPoints(c) ==
    IF c \in {"tools", "resume"} THEN {"project_view", "scf_config"}
    ELSE IF c = "api" THEN {"project_view"}
    ELSE IF c \in {"pair", "stale"} THEN {"dashboard"}
    ELSE IF c = "batch" THEN {"project_view", "onboarding", "scf_config"}
    ELSE {"onboarding", "dashboard"}
OrgIds == {"o1"}
LLMOutcomes(c) == IF c \in {"api", "stale"} THEN {"ok", "invalid"} ELSE {"ok"}
EnvOutcomes(c) == IF c = "api" THEN BOOLEAN ELSE {TRUE}
CallBudget(c) == IF c \in {"api", "resume", "batch", "history"} THEN MaxCalls ELSE MaxTurns
\* "resume" needs the session that is saved and two connections resuming it
InitBudget(c) == IF c = "resume" THEN MaxInits + 1 ELSE MaxInits

\* no process_message activation is between its call and its return
Idle == \A c \in Callers : proc[c].pc \in {"idle", "done"}
\* outside "api", the connection's message loop awaits each turn before it
\* handles the next message or the disconnect
Quiet == cfg # "api" => Idle

NoLockHeld == \A s \in SessionIds : session_locks[s] = ""

\* a lock block that does not give the lock back
lock_kept(locks, sid) == locks

\* leaving "async with self.session_locks[session_id]"
release_lock(locks, sid) == [locks EXCEPT ![sid] = ""]

InitVars ==
    /\ sessions = [s \in SessionIds |-> NewSession]
    /\ live = {}
    /\ closed_sessions = {}
    /\ session_locks = [s \in SessionIds |-> ""]
    /\ turn_tokens = [s \in SessionIds |-> 0]
    /\ redis = [s \in SessionIds |-> NoSnapshot]
    /\ redis_keys = {}
    /\ checkpoint = [s \in SessionIds |-> EmptyState]
    /\ proc = [c \in Callers |-> Proc0]
    /\ ncalls = 0
    /\ ninits = 0
    /\ last_tracked = [s \in SessionIds |-> NoTracked]
    /\ init_log = NoInit

Init == cfg = "api" /\ InitVars
InitOverlap == cfg = "overlap" /\ InitVars
InitTools == cfg = "tools" /\ InitVars

(* ------------------------------------------------------------------ *)
(* process_message                                                     *)
(* ------------------------------------------------------------------ *)
Nodes == {"LLM_chat", "tool_call", "ack_end"}

Finish(p, outcome, ret) == [p EXCEPT !.pc = "done", !.outcome = outcome, !.ret = ret]

\* pass_state = AgentState(messages=[HumanMessage], context=..., ...)
pass_state(session) ==
    [EmptyState EXCEPT !.messages = <<"user">>,
                       !.context = session.context,
                       !.tokens_used = session.tokens_used,
                       !.tool_call_traces = session.tool_call_traces]

\* self.recursion_limit = int(os.getenv("GRAPH_RECURSION_LIMIT", "100")): the
\* supersteps a run may take.  In "stale" the environment sets an odd limit.
recursion_limit ==
    IF cfg = "stale" /\ RecursionLimit % 2 = 0
    THEN RecursionLimit - 1 ELSE RecursionLimit

\* A superstep ended: the delta is reduced into the channels, the stream
\* loop of process_message folds the event, the router picks the next node.
complete_node(p, node_name, update, next) ==
    [p EXCEPT !.st = apply_update(p.st, update),
              !.steps = @ + 1,
              !.last_node = node_name,
              !.delta = update,
              !.last_ai = fold_last_ai(@, node_name, update),
              !.suppress = fold_suppress(@, node_name, update),
              !.pc = next]

\* A superstep begins: the node the router picked starts from the channel
\* values the router read.
start_node(p, node_name) ==
    [p EXCEPT !.ran = node_name,
              !.after = p.last_node,
              !.saw = [has_workflow |-> p.st.has_workflow,
                       has_tool_call |-> p.st.has_tool_call,
                       tool_should_loopback |-> p.st.tool_should_loopback]]

\* process_message is entered and "async with self.session_locks[session_id]"
\* takes the lock; no await separates the two.
PMCall(c, sid) ==
    /\ proc[c].pc \in {"idle", "done"}
    /\ ncalls < CallBudget(cfg)
    /\ NoLockHeld
    /\ session_locks' = [session_locks EXCEPT ![sid] = c]
    /\ proc' = [proc EXCEPT ![c] =
           [Proc0 EXCEPT !.pc = "decide", !.sid = sid,
                         !.prev_abnormal =
                             IF proc[c].outcome \in {"limit", "cancelled"}
                                /\ proc[c].sid = sid
                             THEN proc[c].metered ELSE 0]]
    /\ ncalls' = ncalls + 1
    /\ UNCHANGED <<cfg, sessions, live, closed_sessions, turn_tokens, redis,
                   redis_keys, checkpoint, ninits, last_tracked, init_log>>

\* the body of the first lock block, and its release
\* a decision that does not look at the closed flag
decide_ignoring_closed(known, closed, pending) ==
    IF ~known THEN "not_initialized"
    ELSE IF pending THEN "resume" ELSE "normal"

\* the path the first lock block picks: "if session_id not in
\* self.sessions", "if self.is_session_closed(session_id)",
\* "if session.get('pending_interrupt')"
decide_path(known, closed, pending) ==
    IF ~known THEN "not_initialized"
    ELSE IF closed THEN "closed"
    ELSE IF pending THEN "resume" ELSE "normal"

\* a first lock block that leaves the per-turn counter as it is
turn_tokens_kept(tt, sid) == tt

\* "self._turn_tokens[session_id] = 0" at the start of each message
reset_turn_tokens(tt, sid) == [tt EXCEPT ![sid] = 0]

PMDecide(c) ==
    LET sid == proc[c].sid
        p == [proc[c] EXCEPT !.was_known = sid \in live,
                             !.was_closed = sid \in closed_sessions,
                             !.session0 = sessions[sid]]
        path == decide_path(sid \in live, sid \in closed_sessions,
                            sessions[sid].pending_interrupt)
    IN  /\ proc[c].pc = "decide"
        /\ session_locks[sid] = c
        /\ turn_tokens' = reset_turn_tokens(turn_tokens, sid)
        /\ session_locks' = release_lock(session_locks, sid)
        /\ IF path = "not_initialized"
           THEN /\ proc' = [proc EXCEPT ![c] = Finish(p, "not_initialized", "notinit")]
                /\ UNCHANGED sessions
           ELSE IF path = "closed"
           THEN /\ proc' = [proc EXCEPT ![c] = Finish(p, "closed", "NONE")]
                /\ UNCHANGED sessions
           ELSE IF path = "resume"
           THEN /\ sessions' = [sessions EXCEPT ![sid].pending_interrupt = FALSE]
                /\ proc' = [proc EXCEPT ![c] = [p EXCEPT !.pc = "stream",
                                                         !.mode = "resume",
                                                         !.sessions_kept = FALSE,
                                                         !.wrote = TRUE]]
           ELSE /\ proc' = [proc EXCEPT ![c] = [p EXCEPT !.pc = "stream",
                                                         !.st = pass_state(sessions[sid])]]
                /\ UNCHANGED sessions
        /\ UNCHANGED <<cfg, live, closed_sessions, redis, redis_keys, checkpoint,
                       ncalls, ninits, last_tracked, init_log>>

\* graph.astream(stream_input) starts.  A fresh input is written into the
\* thread's channels and the run starts at LLM_chat; Command(resume=...) on
\* a thread continues from the checkpoint (the built graph never suspends,
\* so that run has no node left to execute).
StreamBegin(c) ==
    LET p == proc[c]
        sid == p.sid
    IN  /\ p.pc = "stream"
        /\ NoLockHeld
        /\ IF p.mode = "resume"
           THEN /\ proc' = [proc EXCEPT ![c] = [p EXCEPT !.pc = "post",
                                                         !.st = checkpoint[sid]]]
                /\ UNCHANGED checkpoint
           ELSE LET st0 == input_state(checkpoint[sid], p.st)
                IN  /\ proc' = [proc EXCEPT ![c] =
                           [p EXCEPT !.pc = "LLM_chat", !.st = st0,
                                     !.fresh_thread = checkpoint[sid] = EmptyState]]
                    /\ checkpoint' = [checkpoint EXCEPT ![sid] = st0]
        /\ UNCHANGED <<cfg, sessions, live, closed_sessions, session_locks,
                       turn_tokens, redis, redis_keys, ncalls, ninits,
                       last_tracked, init_log>>

\* LLM_chat starts: the loopback flag is reset before anything is read.
LLMChatEnter(c) ==
    LET p == proc[c]
    IN  /\ p.pc = "LLM_chat"
        /\ p.steps < recursion_limit
        /\ NoLockHeld
        /\ proc' = [proc EXCEPT ![c] =
                       [start_node(p, "LLM_chat")
                                 EXCEPT !.pc = "llm_call",
                                 !.st = LLM_chat_reset(p.st),
                                 !.attempt = 0,
                                 !.llm_failed = 0,
                                 !.stale_entry = ~p.st.tool_should_loopback,
                                 !.llm_after_fail = p.failed_call,
                                 !.llm_after_tool = p.calls # <<>>]]
        /\ UNCHANGED <<cfg, sessions, live, closed_sessions, session_locks,
                       turn_tokens, redis, redis_keys, checkpoint, ncalls,
                       ninits, last_tracked, init_log>>

\* a correlation id shared by all tasks: it holds what another turn in
\* flight set, if there is one
shared_session_id(c) ==
    IF \E d \in Callers \ {c} : proc[d].pc \notin {"idle", "done"}
    THEN proc[CHOOSE d \in Callers \ {c} : proc[d].pc \notin {"idle", "done"}].sid
    ELSE proc[c].sid

\* _CURRENT_SESSION_ID.get() in the task of activation c: the ContextVar is
\* set by process_message before graph.astream and is local to the task
current_session_id(c) == proc[c].sid

\* a metered client that never looks at the closed flag
ainvoke_never_cancels(closed, session_id) == FALSE

\* MeteredChatOpenAI.ainvoke: "if session_id is not None: if
\* self._agent.is_session_closed(session_id): raise asyncio.CancelledError"
ainvoke_cancels(closed, session_id) ==
    session_id # "" /\ session_id \in closed

\* One structured_llm.ainvoke of LLM_chat's retry loop.  The metered client
\* raises CancelledError for a closed session; otherwise the call returns a
\* reply that parses or is recovered ("ok"), or one that does not ("invalid").
LLMAttempt(c, res, reply, tok) ==
    LET p == proc[c]
        sid == current_session_id(c)
        out == IF res = "ok"
               THEN LLM_chat_out(p.st, reply.text, reply.tools, tok)
               ELSE LLM_chat_out(p.st, "apology", <<>>, 0)
        p1 == [p EXCEPT !.metered = @ + tok,
                        !.llm_failed = IF res = "ok" THEN @ ELSE @ + 1,
                        !.sent_closed = @ \/ p.sid \in closed_sessions]
        q == [complete_node(p1, "LLM_chat", out,
                            route_from_classify(apply_update(p.st, out)))
                 EXCEPT !.tool_requested = @ \/ out.has_tool_call,
                        !.said = @ \cup SeqToSet(out.messages)]
    IN  /\ p.pc = "llm_call"
        /\ NoLockHeld
        /\ IF ainvoke_cancels(closed_sessions, sid)
           THEN /\ UNCHANGED <<turn_tokens, checkpoint>>
                /\ proc' = [proc EXCEPT ![c] =
                       [Finish(p, "cancelled", "NONE") EXCEPT
                           !.cancel_recorded = turn_tokens'[sid] - turn_tokens[sid],
                           !.cancel_closed = p.sid \in closed_sessions]]
           ELSE /\ turn_tokens' = [turn_tokens EXCEPT ![sid] = @ + tok]
                /\ IF res = "ok" \/ p.attempt = max_retries
                   THEN /\ proc' = [proc EXCEPT ![c] = q]
                        /\ checkpoint' = [checkpoint EXCEPT ![p.sid] = q.st]
                   ELSE /\ proc' = [proc EXCEPT ![c] = [p1 EXCEPT !.attempt = @ + 1]]
                        /\ UNCHANGED checkpoint
        /\ UNCHANGED <<cfg, sessions, live, closed_sessions, session_locks,
                       redis, redis_keys, ncalls, ninits, last_tracked, init_log>>

\* The run of identical tracked calls each executed call belongs to, counted
\* from what was actually executed on the session (not from the traces).
RECURSIVE track_calls(_, _, _)
track_calls(lt, calls, i) ==
    IF i > Len(calls) THEN [last |-> lt, infos |-> <<>>]
    ELSE LET r == calls[i]
             counted == r.tracked /\ ~r.cancelled
             run == IF ~counted THEN 0
                    ELSE IF lt.tool = r.name /\ lt.args = r.args THEN lt.run + 1
                    ELSE 1
             lt2 == IF counted THEN [tool |-> r.name, args |-> r.args, run |-> run]
                    ELSE lt
             rest == track_calls(lt2, calls, i + 1)
         IN  [last |-> rest.last,
              infos |-> <<[name |-> r.name, args |-> r.args, handler |-> r.handler,
                           entry_point |-> r.entry_point,
                           failed |-> r.failed, warned |-> r.warned,
                           errored |-> r.errored, seen |-> r.seen, left |-> r.left,
                           tracked |-> r.tracked, cancelled |-> r.cancelled,
                           run |-> run]>> \o rest.infos]

\* tools whose result depends on a backend or writer step
NeedsOutcome(cmd) ==
    tool_name_mapping(cmd.name) \in
        context_update_tools \cup template_edit_tools \cup document_detail_tools

OutcomeSeqs(state) ==
    LET batch == IF state.requested_tools = <<>>
                 THEN <<state.requested_tool>> ELSE state.requested_tools
    IN  {os \in [1..Len(batch) -> ExecOutcomes] :
            \A i \in 1..Len(batch) : ~NeedsOutcome(batch[i]) => os[i] = "ok"}

\* The tool_call node.  http_ok: the documentation-template GET of
\* refresh_documentation_structure answers 200; redis_ok: the SET of
\* _save_session_snapshot_from_state succeeds.
ToolCallEffects(c, r, tr, http_ok, redis_ok, tok) ==
    LET p == proc[c]
        sid == p.sid
        n == Len(r.calls)
        refreshed == http_ok /\ sid \in live /\ \E i \in 1..n : r.calls[i].refresh
        snaps == {i \in 1..n : r.calls[i].snapshot # <<>>}
        p1 == [start_node(p, "tool_call")
                 EXCEPT !.wrote = @ \/ refreshed,
                        !.sessions_kept = @ /\ ~refreshed,
                        !.metered = @ + Cardinality({i \in 1..n : r.calls[i].llm}) * tok,
                        !.sent_closed = @ \/ (sid \in closed_sessions
                                                 /\ \E i \in 1..n : r.calls[i].llm),
                        !.calls = tr.infos,
                        !.traces_before = p.st.tool_call_traces,
                        !.asked = IF p.last_node = "LLM_chat"
                                     /\ "has_tool_call" \in p.delta.keys
                                  THEN p.delta.requested_tools ELSE <<>>,
                        !.batch = IF p.st.requested_tools = <<>>
                                  THEN <<p.st.requested_tool>>
                                  ELSE p.st.requested_tools,
                        !.tool_delta = r.update,
                        !.llm_after_tool = FALSE,
                        !.failed_call = @ \/ \E i \in 1..n : r.calls[i].failed]
    IN  /\ sessions' = IF refreshed
                       THEN [sessions EXCEPT ![sid].context.documentation_structure = 1]
                       ELSE sessions
        /\ IF snaps # {} /\ redis_ok
           THEN /\ redis' = [redis EXCEPT ![sid] =
                    snapshot_from_state(r.calls[CHOOSE i \in snaps : TRUE].snapshot[1])]
                /\ redis_keys' = redis_keys \cup {sid}
           ELSE UNCHANGED <<redis, redis_keys>>
        /\ turn_tokens' = [turn_tokens EXCEPT ![current_session_id(c)] =
               @ + Cardinality({i \in 1..n : r.calls[i].llm}) * tok]
        /\ last_tracked' = [last_tracked EXCEPT ![sid] = tr.last]
        /\ IF r.calls[n].cancelled
           THEN /\ proc' = [proc EXCEPT ![c] =
                       [Finish(p1, "cancelled", "NONE") EXCEPT
                           !.cancel_recorded = turn_tokens'[sid] - turn_tokens[sid],
                           !.cancel_closed = p.sid \in closed_sessions]]
                /\ UNCHANGED checkpoint
           ELSE \E q \in {complete_node(p1, "tool_call", r.update,
                              route_from_tool_call(apply_update(p.st, r.update)))} :
                /\ proc' = [proc EXCEPT ![c] = q]
                /\ checkpoint' = [checkpoint EXCEPT ![sid] = q.st]
        /\ UNCHANGED <<cfg, live, closed_sessions, session_locks, ncalls, ninits,
                       init_log>>

ToolCall(c, os, http_ok, redis_ok, tok) ==
    /\ proc[c].pc = "tool_call"
    /\ proc[c].steps < recursion_limit
    /\ NoLockHeld
    /\ \E r \in {tool_call(proc[c].st, os,
                             ainvoke_cancels(closed_sessions, current_session_id(c)))} :
       \E tr \in {track_calls(last_tracked[proc[c].sid], r.calls, 1)} :
          ToolCallEffects(c, r, tr, http_ok, redis_ok, tok)

\* ack_end returns {} and the run reaches END
AckEnd(c) ==
    LET p == proc[c]
    IN  /\ p.pc = "ack_end"
        /\ p.steps < recursion_limit
        /\ NoLockHeld
        /\ proc' = [proc EXCEPT ![c] =
               [start_node(p, "ack_end") EXCEPT !.steps = @ + 1, !.pc = "post",
                                                !.last_node = "ack_end",
                                                !.delta = EmptyUpdate]]
        /\ UNCHANGED <<cfg, sessions, live, closed_sessions, session_locks,
                       turn_tokens, redis, redis_keys, checkpoint, ncalls,
                       ninits, last_tracked, init_log>>

\* "except GraphRecursionError": a node is due but the step budget is spent
PMRecursionError(c) ==
    LET p == proc[c]
    IN  /\ p.pc \in Nodes
        /\ p.steps >= recursion_limit
        /\ NoLockHeld
        /\ proc' = [proc EXCEPT ![c] =
                       Finish(p, "limit", recursion_error_response(p.last_ai))]
        /\ UNCHANGED <<cfg, sessions, live, closed_sessions, session_locks,
                       turn_tokens, redis, redis_keys, checkpoint, ncalls,
                       ninits, last_tracked, init_log>>

\* graph.aget_state, the backfill of last_ai, and the acquisition of the
\* session lock for the commit
PMBackfill(c) ==
    LET p == proc[c]
        sid == p.sid
        vals == checkpoint[sid]
        suppress == p.suppress \/ ~vals.tool_should_loopback
        last_ai == IF suppress THEN "NONE"
                   ELSE IF p.last_ai # "NONE" THEN p.last_ai
                   ELSE IF last_ai_of(vals.messages) # "NONE"
                        THEN last_ai_of(vals.messages)
                   ELSE "EMPTYSTR"
    IN  /\ p.pc = "post"
        /\ NoLockHeld
        /\ session_locks' = [session_locks EXCEPT ![sid] = c]
        /\ proc' = [proc EXCEPT ![c] = [p EXCEPT !.pc = "commit", !.st = vals,
                                                 !.suppress = suppress,
                                                 !.last_ai = last_ai]]
        /\ UNCHANGED <<cfg, sessions, live, closed_sessions, turn_tokens, redis,
                       redis_keys, checkpoint, ncalls, ninits, last_tracked,
                       init_log>>

\* the context the commit stores: the one-shot scf_redirected flag is cleared
commit_context(ctx) ==
    IF ctx.entry_point = "scf_config" /\ ctx.scf_redirected
    THEN [ctx EXCEPT !.scf_redirected = FALSE] ELSE ctx

\* the body of the second lock block (s = self.sessions[session_id] raises
\* KeyError when the session is gone), and its release
\* The Session the commit block leaves: values are the graph's final state,
\* turn_tokens the per-turn counter ("s.tokens_used += turn_tokens",
\* "s.credits_consumed += turn_credits").
commit_session(s, vals, turn_tokens_now) ==
    [messages |-> vals.messages,
     context |-> commit_context(vals.context),
     tool_call_traces |-> vals.tool_call_traces,
     pending_interrupt |-> FALSE,
     tokens_used |-> s.tokens_used + turn_tokens_now,
     credits_milli |-> s.credits_milli + calculate_credits_consumed(turn_tokens_now)]

PMCommit(c) ==
    LET p0 == proc[c]
        sid == p0.sid
        p == IF sid \in live
             THEN [p0 EXCEPT !.committed =
                       commit_session(sessions[sid], p0.st, turn_tokens[sid]),
                             !.sessions_kept = FALSE]
             ELSE p0
        vals == p.st
        s == sessions[sid]
        tt == turn_tokens[sid]
        turn_credits == calculate_credits_consumed(tt)
        ret == IF p.suppress THEN "NONE" ELSE p.last_ai
    IN  /\ p.pc = "commit"
        /\ session_locks[sid] = c
        /\ session_locks' = release_lock(session_locks, sid)
        /\ IF sid \notin live
           THEN /\ proc' = [proc EXCEPT ![c] = Finish(p, "raised", "NONE")]
                /\ UNCHANGED <<sessions, turn_tokens>>
           ELSE /\ sessions' = [sessions EXCEPT ![sid] = commit_session(s, vals, tt)]
                /\ turn_tokens' = [turn_tokens EXCEPT ![sid] = 0]
                /\ proc' = [proc EXCEPT ![c] =
                       IF turn_credits > 0
                       THEN [p EXCEPT !.pc = "credits", !.turn_credits = turn_credits,
                                      !.ret = ret]
                       ELSE Finish(p, "returned", ret)]
        /\ UNCHANGED <<cfg, live, closed_sessions, redis, redis_keys, checkpoint,
                       ncalls, ninits, last_tracked, init_log>>

\* "if turn_credits > 0 and ctx_for_credits: await self.update_user_credits":
\* the call returns at once when it has nothing to send, otherwise it sends
\* the PATCH and process_message waits for the answer
PMCredits(c) ==
    LET p == proc[c]
    IN  /\ p.pc = "credits"
        /\ NoLockHeld
        /\ \E request \in {update_user_credits(commit_context(p.st.context),
                                               p.turn_credits)} :
              proc' = [proc EXCEPT ![c] =
                  IF request = <<>> THEN Finish(p, "returned", p.ret)
                  ELSE [p EXCEPT !.pc = "credits_wait", !.credit_request = request]]
        /\ UNCHANGED <<cfg, sessions, live, closed_sessions, session_locks,
                       turn_tokens, redis, redis_keys, checkpoint, ncalls,
                       ninits, last_tracked, init_log>>

\* requests.patch answered (or timed out); process_message returns
PMCreditsDone(c) ==
    /\ proc[c].pc = "credits_wait"
    /\ NoLockHeld
    /\ proc' = [proc EXCEPT ![c] = Finish(proc[c], "returned", proc[c].ret)]
    /\ UNCHANGED <<cfg, sessions, live, closed_sessions, session_locks,
                   turn_tokens, redis, redis_keys, checkpoint, ncalls,
                   ninits, last_tracked, init_log>>

(* ------------------------------------------------------------------ *)
(* Session lifecycle                                                   *)
(* ------------------------------------------------------------------ *)
\* session_context = {**context, ..., "entry_point": entry_point}
fresh_context(user, org, entry_point) ==
    [NoContext EXCEPT !.user_id = user, !.org_id = org, !.entry_point = entry_point]

\* a resume that keeps the stored entry point
context_as_stored(ctx, entry_point) == ctx

\* a resume that uses the snapshot up
snapshot_consumed(keys, resume) == keys \ {resume}

\* the Redis keys after a resume that matched: the branch returns after
\* "self.sessions[session_id] = snapshot_session" without a Redis call
snapshot_keys_after_resume(keys, resume) == keys

\* restored_context of the resume path
restored_context(ctx, entry_point) ==
    [ctx EXCEPT !.entry_point = entry_point,
                !.scf_redirected = IF entry_point = "scf_config" THEN TRUE ELSE @]

\* initialize_session(session_id, context, entry_point, resume_session_id).
\* resume = "" stands for no resume_session_id; load_ok / delete_ok say
\* whether the Redis GET / DELETE succeed (both failures are swallowed).
InitializeSession(sid, user, org, entry_point, resume, load_ok, delete_ok) ==
    LET found == resume # "" /\ load_ok /\ resume \in redis_keys
        snapshot == redis[resume]
        matches == resume_user_matches(snapshot.user_id, user)
        log == [sid |-> sid, resume |-> resume, found |-> found,
                snapshot_user_id |-> IF found THEN snapshot.user_id ELSE "",
                fresh_user_id |-> user, raised |-> FALSE,
                delete_called |-> FALSE, delete_ok |-> FALSE,
                snapshot_left |-> FALSE, sessions_untouched |-> FALSE,
                lock_holder |-> session_locks[sid], resumed |-> NoResume,
                prev_resumed |-> IF init_log.resumed.resume # ""
                                 THEN init_log.resumed ELSE init_log.prev_resumed,
                welcome_sent |-> FALSE]
    IN  /\ ninits < InitBudget(cfg)
        /\ NoLockHeld
        /\ Idle
        /\ ninits' = ninits + 1
        /\ UNCHANGED <<cfg, session_locks, turn_tokens, redis, checkpoint, proc,
                       ncalls, last_tracked>>
        /\ IF found /\ ~matches
           THEN /\ redis_keys' = IF delete_ok THEN redis_keys \ {resume} ELSE redis_keys
                /\ UNCHANGED <<sessions, live, closed_sessions>>
                /\ init_log' = [log EXCEPT !.raised = TRUE, !.delete_called = TRUE,
                                           !.delete_ok = delete_ok,
                                           !.snapshot_left = resume \in redis_keys',
                                           !.sessions_untouched =
                                               sessions' = sessions /\ live' = live]
           ELSE /\ sessions' = [sessions EXCEPT ![sid] =
                       IF found
                       THEN [load_session_snapshot(snapshot) EXCEPT
                                !.context = restored_context(@, entry_point)]
                       ELSE [(IF sid \in live THEN sessions[sid] ELSE NewSession)
                                EXCEPT !.context = fresh_context(user, org, entry_point)]]
                /\ live' = live \cup {sid}
                /\ closed_sessions' = closed_sessions \ {sid}
                /\ redis_keys' = IF found
                                 THEN snapshot_keys_after_resume(redis_keys, resume)
                                 ELSE redis_keys
                /\ init_log' = [log EXCEPT !.snapshot_left = resume \in redis_keys',
                                           !.resumed =
                                               IF found
                                               THEN [resume |-> resume, user |-> user,
                                                     entry_point |-> entry_point,
                                                     snapshot |-> snapshot,
                                                     restored |-> sessions'[sid],
                                                     stored_after |->
                                                         IF resume \in redis_keys'
                                                         THEN redis'[resume]
                                                         ELSE NoSnapshot]
                                               ELSE NoResume,
                                           !.sessions_untouched =
                                               sessions' = sessions /\ live' = live]

\* mark_session_closed
MarkSessionClosed(sid) ==
    /\ sid \notin closed_sessions
    /\ NoLockHeld
    /\ Quiet
    /\ closed_sessions' = closed_sessions \cup {sid}
    /\ UNCHANGED <<cfg, sessions, live, session_locks, turn_tokens, redis,
                   redis_keys, checkpoint, proc, ncalls, ninits, last_tracked,
                   init_log>>

\* cleanup_session: best-effort snapshot, then del self.sessions[session_id]
CleanupSession(sid, save_ok) ==
    /\ sid \in live
    /\ NoLockHeld
    /\ Quiet
    /\ IF save_ok
       THEN /\ redis' = [redis EXCEPT ![sid] = snapshot_from_session(sessions[sid])]
            /\ redis_keys' = redis_keys \cup {sid}
       ELSE UNCHANGED <<redis, redis_keys>>
    /\ live' = live \ {sid}
    /\ sessions' = [sessions EXCEPT ![sid] = NewSession]
    /\ UNCHANGED <<cfg, closed_sessions, session_locks, turn_tokens, checkpoint,
                   proc, ncalls, ninits, last_tracked, init_log>>

(* ------------------------------------------------------------------ *)
(* Specifications                                                      *)
(* ------------------------------------------------------------------ *)
Next ==
    \/ \E c \in CallersOf(cfg) : \E sid \in SessionsFor(cfg, c) : PMCall(c, sid)
    \/ \E c \in CallersOf(cfg) : PMDecide(c)
    \/ \E c \in CallersOf(cfg) : StreamBegin(c)
    \/ \E c \in CallersOf(cfg) : LLMChatEnter(c)
    \/ \E c \in CallersOf(cfg), res \in LLMOutcomes(cfg), reply \in Replies(cfg),
          tok \in TokenAmounts : LLMAttempt(c, res, reply, tok)
    \/ \E c \in CallersOf(cfg), http_ok \in EnvOutcomes(cfg), redis_ok \in EnvOutcomes(cfg),
          tok \in TokenAmounts :
          \E os \in OutcomeSeqs(proc[c].st) : ToolCall(c, os, http_ok, redis_ok, tok)
    \/ \E c \in CallersOf(cfg) : AckEnd(c)
    \/ \E c \in CallersOf(cfg) : PMRecursionError(c)
    \/ \E c \in CallersOf(cfg) : PMBackfill(c)
    \/ \E c \in CallersOf(cfg) : PMCommit(c)
    \/ \E c \in CallersOf(cfg) : PMCredits(c)
    \/ \E c \in CallersOf(cfg) : PMCreditsDone(c)
    \/ \E sid \in SessionsOf(cfg), user \in UsersOf(cfg), org \in OrgIds,
          entry_point \in EntryPoints(cfg), resume \in SessionsOf(cfg) \cup {""},
          load_ok \in EnvOutcomes(cfg), delete_ok \in EnvOutcomes(cfg) :
          InitializeSession(sid, user, org, entry_point, resume, load_ok, delete_ok)
    \/ \E sid \in SessionsOf(cfg) : MarkSessionClosed(sid)
    \/ \E sid \in SessionsOf(cfg), save_ok \in EnvOutcomes(cfg) : CleanupSession(sid, save_ok)

Spec == Init /\ [][Next]_vars

\* The credit functions on their own: one call of
\* calculate_credits_consumed or of update_user_credits with an argument
\* drawn from the whole range.
InitCredits == cfg = "credits" /\ InitVars

CalculateCredits(c, tokens_used) ==
    /\ proc[c].pc = "idle"
    /\ proc' = [proc EXCEPT ![c] =
           Finish([Proc0 EXCEPT !.tokens = tokens_used,
                                !.turn_credits = calculate_credits_consumed(tokens_used)],
                  "calculated", "NONE")]
    /\ UNCHANGED <<cfg, sessions, live, closed_sessions, session_locks,
                   turn_tokens, redis, redis_keys, checkpoint, ncalls, ninits,
                   last_tracked, init_log>>

UpdateUserCredits(c, org, credits_milli) ==
    /\ proc[c].pc = "idle"
    /\ proc' = [proc EXCEPT ![c] =
           Finish([Proc0 EXCEPT !.st.context.org_id = org,
                                !.turn_credits = credits_milli,
                                !.credit_request =
                                    update_user_credits([NoContext EXCEPT !.org_id = org],
                                                        credits_milli)],
                  "credits_call", "NONE")]
    /\ UNCHANGED <<cfg, sessions, live, closed_sessions, session_locks,
                   turn_tokens, redis, redis_keys, checkpoint, ncalls, ninits,
                   last_tracked, init_log>>

NextCredits ==
    \/ \E tokens_used \in 0..MaxTokens : CalculateCredits("c1", tokens_used)
    \/ \E org \in OrgIds \cup {""}, credits_milli \in (0 - MaxTokens)..MaxTokens :
          UpdateUserCredits("c1", org, credits_milli)

SpecCredits == InitCredits /\ [][NextCredits]_vars
\* The operations that run when a connection ends, by their lock blocks:
\* save_chat_memory_from_session and cleanup_session (which calls
\* _save_session_snapshot_from_session) each copy the session inside
\* "async with self.session_locks[session_id]" and do their I/O after it.
InitLocks == cfg = "locks" /\ InitVars

CloseOps == {"chat_memory", "cleanup"}

\* "if session_id not in self.sessions: return", then the lock is taken
SaveCall(c, sid, op) ==
    /\ proc[c].pc \in {"idle", "done"}
    /\ sid \in live
    /\ NoLockHeld
    /\ session_locks' = [session_locks EXCEPT ![sid] = c]
    /\ proc' = [proc EXCEPT ![c] = [Proc0 EXCEPT !.pc = "save_read", !.sid = sid,
                                                 !.op = op]]
    /\ UNCHANGED <<cfg, sessions, live, closed_sessions, turn_tokens, redis,
                   redis_keys, checkpoint, ncalls, ninits, last_tracked, init_log>>

\* the body of the lock block: "session = self.sessions.get(session_id)",
\* "if not session: return", the copy, and the release
SaveRead(c) ==
    LET p == proc[c]
        sid == p.sid
    IN  /\ p.pc = "save_read"
        /\ session_locks[sid] = c
        /\ session_locks' = release_lock(session_locks, sid)
        /\ proc' = [proc EXCEPT ![c] =
               IF sid \notin live THEN Finish(p, "skipped", "NONE")
               ELSE [p EXCEPT !.pc = "save_io",
                              !.snapshot = snapshot_from_session(sessions[sid])]]
        /\ UNCHANGED <<cfg, sessions, live, closed_sessions, turn_tokens, redis,
                       redis_keys, checkpoint, ncalls, ninits, last_tracked, init_log>>

\* the I/O after the lock block: "await self.redis_client.set(key, ...)" for
\* the snapshot, "requests.post(url, ...)" for the chat memory; a failure is
\* printed and swallowed
SaveIO(c, ok) ==
    LET p == proc[c]
        sid == p.sid
    IN  /\ p.pc = "save_io"
        /\ NoLockHeld
        /\ IF p.op = "cleanup" /\ ok
           THEN /\ redis' = [redis EXCEPT ![sid] = p.snapshot]
                /\ redis_keys' = redis_keys \cup {sid}
           ELSE UNCHANGED <<redis, redis_keys>>
        /\ proc' = [proc EXCEPT ![c] =
               IF p.op = "cleanup"
               THEN [p EXCEPT !.pc = "cleanup_del", !.save_attempted = TRUE,
                              !.save_ok = ok]
               ELSE Finish([p EXCEPT !.save_attempted = TRUE, !.save_ok = ok],
                           "saved", "NONE")]
        /\ UNCHANGED <<cfg, sessions, live, closed_sessions, session_locks,
                       turn_tokens, checkpoint, ncalls, ninits, last_tracked,
                       init_log>>

\* a cleanup that keeps the session when its snapshot could not be saved
removes_only_if_saved(save_ok) == save_ok

\* whether cleanup_session goes on to the removal: the save's failure is
\* caught and printed ("except Exception as e: print(...)") and the removal
\* follows the try statement
cleanup_removes(save_ok) == TRUE

\* "if session_id in self.sessions: del self.sessions[session_id]"
CleanupDelete(c) ==
    LET p == proc[c]
        sid == p.sid
    IN  /\ p.pc = "cleanup_del"
        /\ NoLockHeld
        /\ live' = IF cleanup_removes(p.save_ok) THEN live \ {sid} ELSE live
        /\ sessions' = IF cleanup_removes(p.save_ok)
                       THEN [sessions EXCEPT ![sid] = NewSession] ELSE sessions
        /\ proc' = [proc EXCEPT ![c] =
               Finish([p EXCEPT !.known_after = sid \in live'], "cleaned", "NONE")]
        /\ UNCHANGED <<cfg, closed_sessions, session_locks, turn_tokens, redis,
                       redis_keys, checkpoint, ncalls, ninits, last_tracked,
                       init_log>>

NextLocks ==
    \/ Next
    \/ \E c \in CallersOf(cfg), sid \in SessionsOf(cfg), op \in CloseOps :
          SaveCall(c, sid, op)
    \/ \E c \in CallersOf(cfg) : SaveRead(c)
    \/ \E c \in CallersOf(cfg), ok \in BOOLEAN : SaveIO(c, ok)
    \/ \E c \in CallersOf(cfg) : CleanupDelete(c)

SpecLocks == InitLocks /\ [][NextLocks]_vars

(* ------------------------------------------------------------------ *)
(* websocket_endpoint: the onboarding welcome messages                 *)
(* ------------------------------------------------------------------ *)
InitHistory == cfg = "history" /\ InitVars

\* "if entry_point == "onboarding":" after initialize_session returned and
\* before the message loop starts
WelcomeDue(sid) ==
    /\ init_log.sid = sid /\ ~init_log.raised /\ ~init_log.welcome_sent
    /\ sid \in live
    /\ sessions[sid].context.entry_point = "onboarding"

\* agent.sessions[session_id]["messages"].append(AIMessage(...)), twice
WebsocketWelcome(sid) ==
    /\ WelcomeDue(sid)
    /\ Idle /\ NoLockHeld
    /\ sessions' = [sessions EXCEPT ![sid].messages = @ \o <<"welcome", "welcome">>]
    /\ init_log' = [init_log EXCEPT !.welcome_sent = TRUE]
    /\ UNCHANGED <<cfg, live, closed_sessions, session_locks, turn_tokens, redis,
                   redis_keys, checkpoint, proc, ncalls, ninits, last_tracked>>

NextHistory ==
    \/ (\A sid \in SessionIds : ~WelcomeDue(sid)) /\ Next
    \/ \E sid \in SessionsOf(cfg) : WebsocketWelcome(sid)

SpecHistory == InitHistory /\ [][NextHistory]_vars
\* The compiled graph on its own: one run of the graph from any values of
\* the routing flags, each node returning any delta its code can build.
InitRoute == cfg = "route" /\ InitVars

GraphNodes == Nodes \cup {"workflow"}
WorkflowNames == {"", "wf"}
LoopbackWrites == {"absent", "true", "false"}

\* graph.astream(state): the run starts at the entry point LLM_chat
GraphInvoke(c, has_wf, has_tool, loopback) ==
    /\ proc[c].pc \in {"idle", "done"}
    /\ ncalls < MaxTurns
    /\ ncalls' = ncalls + 1
    /\ proc' = [proc EXCEPT ![c] =
           [Proc0 EXCEPT !.pc = "LLM_chat", !.sid = "s1",
                         !.st = [EmptyState EXCEPT
                                    !.messages = <<"user">>,
                                    !.has_workflow = has_wf,
                                    !.has_tool_call = has_tool,
                                    !.requested_tool = IF has_tool THEN gp_a ELSE NoCmd,
                                    !.tool_should_loopback = loopback]]]
    /\ UNCHANGED <<cfg, sessions, live, closed_sessions, session_locks,
                   turn_tokens, redis, redis_keys, checkpoint, ninits,
                   last_tracked, init_log>>

\* the LLM_chat node and the conditional edge after it
GraphLLMChat(c, workflow_name, reply) ==
    LET p == proc[c]
        p0 == [start_node(p, "LLM_chat") EXCEPT !.st = LLM_chat_reset(p.st)]
        out == LLM_chat_decision(p0.st, reply.text, workflow_name, reply.tools, 0)
    IN  /\ p.pc = "LLM_chat"
        /\ p.steps < RecursionLimit
        /\ proc' = [proc EXCEPT ![c] =
               complete_node(p0, "LLM_chat", out,
                             route_from_classify(apply_update(p0.st, out)))]
        /\ UNCHANGED <<cfg, sessions, live, closed_sessions, session_locks,
                       turn_tokens, redis, redis_keys, checkpoint, ncalls,
                       ninits, last_tracked, init_log>>

\* the workflow node and its edge to LLM_chat
GraphWorkflow(c) ==
    LET p == proc[c]
    IN  /\ p.pc = "workflow"
        /\ p.steps < RecursionLimit
        /\ proc' = [proc EXCEPT ![c] =
               complete_node(start_node(p, "workflow"), "workflow",
                             workflow_node_out, "LLM_chat")]
        /\ UNCHANGED <<cfg, sessions, live, closed_sessions, session_locks,
                       turn_tokens, redis, redis_keys, checkpoint, ncalls,
                       ninits, last_tracked, init_log>>

\* the tool_call node and the conditional edge after it: the tool's delta
\* writes tool_should_loopback or leaves it out
GraphToolCall(c, loopback) ==
    LET p == proc[c]
        update == IF loopback = "absent" THEN tool_update(<<"status">>)
                  ELSE with_loopback(tool_update(<<"status">>), loopback = "true")
        p0 == [start_node(p, "tool_call") EXCEPT !.tool_delta = update]
    IN  /\ p.pc = "tool_call"
        /\ p.steps < RecursionLimit
        /\ proc' = [proc EXCEPT ![c] =
               complete_node(p0, "tool_call", update,
                             route_from_tool_call(apply_update(p.st, update)))]
        /\ UNCHANGED <<cfg, sessions, live, closed_sessions, session_locks,
                       turn_tokens, redis, redis_keys, checkpoint, ncalls,
                       ninits, last_tracked, init_log>>

\* ack_end and its edge to END
GraphAckEnd(c) ==
    LET p == proc[c]
    IN  /\ p.pc = "ack_end"
        /\ p.steps < RecursionLimit
        /\ proc' = [proc EXCEPT ![c] =
               Finish(complete_node(start_node(p, "ack_end"), "ack_end",
                                    EmptyUpdate, "done"), "returned", "NONE")]
        /\ UNCHANGED <<cfg, sessions, live, closed_sessions, session_locks,
                       turn_tokens, redis, redis_keys, checkpoint, ncalls,
                       ninits, last_tracked, init_log>>

\* GraphRecursionError: a node is due but the step budget is spent
GraphLimit(c) ==
    LET p == proc[c]
    IN  /\ p.pc \in GraphNodes
        /\ p.steps >= RecursionLimit
        /\ proc' = [proc EXCEPT ![c] =
               Finish(p, "limit", recursion_error_response(p.last_ai))]
        /\ UNCHANGED <<cfg, sessions, live, closed_sessions, session_locks,
                       turn_tokens, redis, redis_keys, checkpoint, ncalls,
                       ninits, last_tracked, init_log>>

NextRoute ==
    \/ \E has_wf \in BOOLEAN, has_tool \in BOOLEAN, loopback \in BOOLEAN :
          GraphInvoke("c1", has_wf, has_tool, loopback)
    \/ \E workflow_name \in WorkflowNames, reply \in Replies("tools") :
          GraphLLMChat("c1", workflow_name, reply)
    \/ GraphWorkflow("c1")
    \/ \E loopback \in LoopbackWrites : GraphToolCall("c1", loopback)
    \/ GraphAckEnd("c1")
    \/ GraphLimit("c1")

SpecRoute == InitRoute /\ [][NextRoute]_vars

\* evaluate_single_project_document on its own: one call at a time, with
\* every outcome of the backend requests, of the writer and of the evidence
\* helper.
InitDoc == cfg = "doc" /\ InitVars

Tokens == {"", "token"}
DocumentIds == {"", " ", "doc-1"}
HttpOutcomes == {"200", "204", "401", "404", "500", "timeout", "connection"}
WriterOutcomes == {"ok", "fail", "raise"}
ScoreRaws ==
    {[kind |-> "int", val |-> v] : v \in {0, 14, 15, 16}}
        \cup {[kind |-> "digits", val |-> 15], [kind |-> "text", val |-> 0],
              [kind |-> "none", val |-> 0]}
HelperOutcomes == {"processed", "unprocessed", "raise"}

\* str.strip() on a document id
strip_id(document_id) == IF document_id = " " THEN "" ELSE document_id

\* "try: score_int = int(score_raw) except Exception: score_int = 0"
int_or_zero(score_raw) ==
    IF score_raw.kind \in {"int", "digits"} THEN score_raw.val ELSE 0

status_of(outcome) ==
    CASE outcome = "200" -> 200 [] outcome = "204" -> 204
      [] outcome = "401" -> 401 [] outcome = "404" -> 404
      [] outcome = "500" -> 500 [] OTHER -> -1

http_error(outcome) ==
    CASE outcome = "401" -> "unauthorized" [] outcome = "404" -> "not_found"
      [] outcome = "timeout" -> "timeout" [] outcome = "connection" -> "connection"
      [] OTHER -> "http_status"

\* read_full_document's return value: only 200 is a success
read_full_document(outcome) ==
    IF outcome = "200" THEN [success |-> TRUE, error |-> "", status_code |-> -1]
    ELSE [success |-> FALSE, error |-> http_error(outcome),
          status_code |-> status_of(outcome)]

\* update_document's return value: 200, 201 and 204 are successes
update_document(outcome) ==
    IF outcome \in {"200", "204"}
    THEN [success |-> TRUE, error |-> "", status_code |-> -1]
    ELSE [success |-> FALSE, error |-> http_error(outcome),
          status_code |-> status_of(outcome)]

\* a check that lets the call go on after a failed read
read_failure_ignored(full_result) == FALSE

\* "if not full_result.get("success"):"
read_failed(full_result) == ~full_result.success

\* an evidence step that only looks at the score
evidence_due_by_score(update_error, score_int) == score_int >= relevance_threshold

\* step 5: the evidence helper runs unless the update failed
\* ("if update_error is not None") or the score is low ("elif score_int < 15")
evidence_due(update_error, score_int) ==
    update_error = "" /\ ~(score_int < relevance_threshold)

evaluate_failure(error_msg, status_code) ==
    [NoEvalResult EXCEPT !.error = error_msg, !.status_code = status_code]

\* entry of evaluate_single_project_document: the two argument checks
EvalCall(c, jwt_token, document_id) ==
    LET e == [NoEval EXCEPT !.document_id = strip_id(document_id)]
        p == [Proc0 EXCEPT !.op = "evaluate_document", !.ev = e]
    IN  /\ proc[c].pc \in {"idle", "done"}
        /\ ncalls < MaxTurns
        /\ ncalls' = ncalls + 1
        /\ proc' = [proc EXCEPT ![c] =
               IF jwt_token = ""
               THEN Finish([p EXCEPT !.ev.result = evaluate_failure("missing_auth", -1)],
                           "failed", "NONE")
               ELSE IF e.document_id = ""
               THEN Finish([p EXCEPT !.ev.result =
                                evaluate_failure("missing_document_id", -1)],
                           "failed", "NONE")
               ELSE [p EXCEPT !.pc = "read"]]
        /\ UNCHANGED <<cfg, sessions, live, closed_sessions, session_locks,
                       turn_tokens, redis, redis_keys, checkpoint, ninits,
                       last_tracked, init_log>>

\* 1) read_full_document and the return on its failure
EvalRead(c, outcome) ==
    LET p == proc[c]
        full_result == read_full_document(outcome)
        p1 == [p EXCEPT !.ev.full_result = full_result,
                        !.ev.log = Append(@, "read_full_document")]
    IN  /\ p.pc = "read"
        /\ proc' = [proc EXCEPT ![c] =
               IF read_failed(full_result)
               THEN Finish([p1 EXCEPT !.ev.result =
                                evaluate_failure(full_result.error,
                                                 full_result.status_code)],
                           "failed", "NONE")
               ELSE [p1 EXCEPT !.pc = "writer"]]
        /\ UNCHANGED <<cfg, sessions, live, closed_sessions, session_locks,
                       turn_tokens, redis, redis_keys, checkpoint, ncalls,
                       ninits, last_tracked, init_log>>

\* 2) run_document_relevance_workflow: a writer that raises is turned into
\* {"success": False, ...} by the workflow
EvalWriter(c, outcome, score_raw) ==
    LET p == proc[c]
        p1 == [p EXCEPT !.ev.log = Append(@, "writer")]
    IN  /\ p.pc = "writer"
        /\ proc' = [proc EXCEPT ![c] =
               IF outcome # "ok"
               THEN Finish([p1 EXCEPT !.ev.result = evaluate_failure("writer_failed", -1)],
                           "failed", "NONE")
               ELSE [p1 EXCEPT !.pc = "update",
                               !.ev.eval_success = TRUE,
                               !.ev.score_int = int_or_zero(score_raw)]]
        /\ UNCHANGED <<cfg, sessions, live, closed_sessions, session_locks,
                       turn_tokens, redis, redis_keys, checkpoint, ncalls,
                       ninits, last_tracked, init_log>>

\* 4) update_document with the new content and the score
EvalUpdate(c, outcome) ==
    LET p == proc[c]
    IN  /\ p.pc = "update"
        /\ proc' = [proc EXCEPT ![c] =
               [p EXCEPT !.pc = "evidence",
                         !.ev.update_result = update_document(outcome),
                         !.ev.log = Append(@, "update_document")]]
        /\ UNCHANGED <<cfg, sessions, live, closed_sessions, session_locks,
                       turn_tokens, redis, redis_keys, checkpoint, ncalls,
                       ninits, last_tracked, init_log>>

\* 5) the evidence step and the returned dict
EvalEvidence(c, helper) ==
    LET p == proc[c]
        e == p.ev
        update_error == IF e.update_result.success THEN "" ELSE e.update_result.error
        due == evidence_due(update_error, e.score_int)
        result == [success |-> update_error = "", error |-> update_error,
                   status_code |-> -1, relevance_score |-> e.score_int,
                   updated |-> e.update_result.success,
                   evidence |-> IF due /\ helper = "processed"
                                THEN "processed" ELSE "not_processed",
                   evidence_note |-> IF update_error # "" THEN "update_failed"
                                     ELSE IF ~due THEN "low_score"
                                     ELSE IF helper = "raise" THEN "helper_error"
                                     ELSE ""]
    IN  /\ p.pc = "evidence"
        /\ proc' = [proc EXCEPT ![c] =
               Finish([p EXCEPT !.ev.result = result,
                                !.ev.log = IF due THEN Append(@, "evidence") ELSE @],
                      "returned", "NONE")]
        /\ UNCHANGED <<cfg, sessions, live, closed_sessions, session_locks,
                       turn_tokens, redis, redis_keys, checkpoint, ncalls,
                       ninits, last_tracked, init_log>>

NextDoc ==
    \/ \E jwt_token \in Tokens, document_id \in DocumentIds :
          EvalCall("c1", jwt_token, document_id)
    \/ \E outcome \in HttpOutcomes : EvalRead("c1", outcome)
    \/ \E outcome \in WriterOutcomes, score_raw \in ScoreRaws :
          EvalWriter("c1", outcome, score_raw)
    \/ \E outcome \in HttpOutcomes : EvalUpdate("c1", outcome)
    \/ \E helper \in HelperOutcomes : EvalEvidence("c1", helper)

SpecDoc == InitDoc /\ [][NextDoc]_vars

\* _apply_insert_operations on its own.  A text is a sequence of characters.
InitInsert == cfg = "insert" /\ InitVars

NL == "\n"
Chars == {"a", "b", NL}
Texts(n) == UNION {[1..k -> Chars] : k \in 0..n}
IsSpace(ch) == ch = NL

\* str.lstrip(), str.rstrip(), str.strip()
RECURSIVE lstrip(_)
lstrip(t) == IF t # <<>> /\ IsSpace(Head(t)) THEN lstrip(Tail(t)) ELSE t

RECURSIVE rstrip(_)
rstrip(t) ==
    IF t # <<>> /\ IsSpace(t[Len(t)]) THEN rstrip(SubSeq(t, 1, Len(t) - 1)) ELSE t

strip(t) == rstrip(lstrip(t))

\* "sub in t"
occurs_at(t, sub, i) == SubSeq(t, i + 1, i + Len(sub)) = sub
contains(t, sub) == \E i \in 0..(Len(t) - Len(sub)) : occurs_at(t, sub, i)

\* str.find(sub): the lowest index of an occurrence, -1 when there is none
find(t, sub) ==
    IF contains(t, sub)
    THEN CHOOSE i \in 0..(Len(t) - Len(sub)) :
            /\ occurs_at(t, sub, i)
            /\ \A j \in 0..(i - 1) : ~occurs_at(t, sub, j)
    ELSE -1

endswith_newline(t) == t # <<>> /\ t[Len(t)] = NL

\* "if position not in {"before", "after"}: position = "after""
position_of(op) == IF op.position \in {"before", "after"} THEN op.position ELSE "after"

\* the text after an insertion at the anchor, or appended to the end
insert_snippet(content, anchor, position, snippet) ==
    LET insertion_text == <<NL, NL>> \o snippet \o <<NL>>
        idx == IF anchor # <<>> THEN find(content, anchor) ELSE -1
        insertion_point == IF position = "before" THEN idx ELSE idx + Len(anchor)
    IN  IF idx # -1
        THEN SubSeq(content, 1, insertion_point) \o insertion_text
                \o SubSeq(content, insertion_point + 1, Len(content))
        ELSE (IF endswith_newline(content) THEN content ELSE content \o <<NL>>)
                \o lstrip(insertion_text)

\* one pass of the loop body of _apply_insert_operations
apply_insert_operation(content, op) ==
    LET anchor == strip(op.anchor_text)
        snippet == strip(op.markdown_to_insert)
    IN  IF snippet = <<>> THEN content
        ELSE IF contains(content, snippet) THEN content
        ELSE insert_snippet(content, anchor, position_of(op), snippet)

RECURSIVE apply_from(_, _, _)
apply_from(content, insert_operations, i) ==
    IF i > Len(insert_operations) THEN content
    ELSE apply_from(apply_insert_operation(content, insert_operations[i]),
                    insert_operations, i + 1)

\* _apply_insert_operations(existing_content, insert_operations)
apply_insert_operations(existing_content, insert_operations) ==
    apply_from(existing_content, insert_operations, 1)

AnchorTexts == {<<>>, <<"a">>, <<"b">>}
Snippets == {<<>>, <<"a", "b">>, <<"b", "a">>, <<"a", NL>>}
Positions == {"before", "after", "middle"}
InsertOps ==
    [anchor_text : AnchorTexts, position : Positions, markdown_to_insert : Snippets]
InsertOpLists == UNION {[1..k -> InsertOps] : k \in 0..MaxOps}

\* a caller picks a text and a list of operations
InsertCall(c, existing_content, insert_operations) ==
    /\ proc[c].pc = "idle"
    /\ proc' = [proc EXCEPT ![c] =
           [Proc0 EXCEPT !.pc = "apply", !.op = "apply_insert_operations",
                         !.ins = [NoInsert EXCEPT
                                     !.existing_content = existing_content,
                                     !.insert_operations = insert_operations]]]
    /\ UNCHANGED <<cfg, sessions, live, closed_sessions, session_locks,
                   turn_tokens, redis, redis_keys, checkpoint, ncalls, ninits,
                   last_tracked, init_log>>

\* first = _apply_insert_operations(original, ops), then
\* second = _apply_insert_operations(first, ops)
InsertApply(c) ==
    LET p == proc[c]
        i == p.ins
    IN  /\ p.pc = "apply"
        /\ proc' = [proc EXCEPT ![c] =
               IF i.runs = 0
               THEN [p EXCEPT !.ins.runs = 1,
                              !.ins.first = apply_insert_operations(
                                               i.existing_content, i.insert_operations)]
               ELSE Finish([p EXCEPT !.ins.runs = 2,
                                     !.ins.second = apply_insert_operations(
                                                       i.first, i.insert_operations)],
                           "returned", "NONE")]
        /\ UNCHANGED <<cfg, sessions, live, closed_sessions, session_locks,
                       turn_tokens, redis, redis_keys, checkpoint, ncalls,
                       ninits, last_tracked, init_log>>

NextInsert ==
    \/ \E existing_content \in Texts(MaxText), insert_operations \in InsertOpLists :
          InsertCall("c1", existing_content, insert_operations)
    \/ InsertApply("c1")

SpecInsert == InitInsert /\ [][NextInsert]_vars

(* ------------------------------------------------------------------ *)
(* tool_call on a state whose trace is long                            *)
(* ------------------------------------------------------------------ *)
InitCap == cfg = "cap" /\ InitVars

\* the trace entry an earlier call left: i names the call
OldEntry(i) ==
    IF i % 7 \in {2, 5}
    THEN [tool |-> "scf_set_min_weight", args |-> <<"5">>, status |-> "success"]
    ELSE IF i % 7 = 4
    THEN [tool |-> "update_context", args |-> <<"a">>, status |-> "success"]
    ELSE IF i % 7 = 6
    THEN [tool |-> "update_context", args |-> <<>>, status |-> "error"]
    ELSE [tool |-> "scf_reset_filters", args |-> <<>>, status |-> "success"]

\* state["tool_call_traces"] after n earlier tracked calls
OldTraces(n) == [i \in 1..n |-> OldEntry(i)]

\* the state LLM_chat hands to tool_call
CapCall(c, n, batch) ==
    /\ proc[c].pc = "idle"
    /\ proc' = [proc EXCEPT ![c] =
           [Proc0 EXCEPT
               !.pc = "tool_call", !.sid = "s1", !.last_node = "LLM_chat",
               !.st = [EmptyState EXCEPT
                          !.context = [NoContext EXCEPT !.user_id = "u1",
                                                        !.org_id = "o1",
                                                        !.entry_point = "scf_config"],
                          !.tool_call_traces = OldTraces(n),
                          !.has_tool_call = TRUE,
                          !.requested_tool = batch[1],
                          !.requested_tools = batch]]]
    /\ UNCHANGED <<cfg, sessions, live, closed_sessions, session_locks,
                   turn_tokens, redis, redis_keys, checkpoint, ncalls, ninits,
                   last_tracked, init_log>>

\* the tool_call node and the channel update that follows it
CapApply(c, os) ==
    LET p == proc[c]
        r == tool_call(p.st, os, FALSE)
    IN  /\ p.pc = "tool_call"
        /\ proc' = [proc EXCEPT ![c] =
               Finish([p EXCEPT !.last_node = "tool_call",
                                !.traces_before = p.st.tool_call_traces,
                                !.batch = p.st.requested_tools,
                                !.calls = track_calls(NoTracked, r.calls, 1).infos,
                                !.tool_delta = r.update,
                                !.st = apply_update(p.st, r.update)],
                      "returned", "NONE")]
        /\ UNCHANGED <<cfg, sessions, live, closed_sessions, session_locks,
                       turn_tokens, redis, redis_keys, checkpoint, ncalls,
                       ninits, last_tracked, init_log>>

NextCap ==
    \/ \E n \in 0..TraceCap, batch \in ToolBatches : CapCall("c1", n, batch)
    \/ \E os \in OutcomeSeqs(proc["c1"].st) : CapApply("c1", os)

SpecCap == InitCap /\ [][NextCap]_vars

(* ------------------------------------------------------------------ *)
(* The scf_tasks tool                                                  *)
(* ------------------------------------------------------------------ *)
InitTasks == cfg = "tasks" /\ InitVars

ALLOWED_ACTIONS == {"create_task", "mark_done", "mark_error", "retry_task", "skip_task"}

\* str(uuid.uuid4()): an id no task of the list has
TaskIds == <<"t1", "t2", "t3", "t4", "t5">>
new_id(tasks) == TaskIds[Len(tasks) + 1]

normalize_action(raw) ==
    IF raw \in {"create", "create_task"} THEN "create_task"
    ELSE IF raw \in {"done", "complete", "mark_done"} THEN "mark_done"
    ELSE IF raw \in {"error", "fail", "mark_error"} THEN "mark_error"
    ELSE IF raw \in {"retry", "retry_task"} THEN "retry_task"
    ELSE IF raw \in {"skip", "skip_task"} THEN "skip_task"
    ELSE ""

\* validate_args: (ok, payload)
validate_args(args) ==
    IF args = <<>> THEN [ok |-> FALSE, payload |-> NoPayload]
    ELSE IF normalize_action(args[1]) = "" THEN [ok |-> FALSE, payload |-> NoPayload]
    ELSE IF Len(args) < 2 \/ args[2] = "" THEN [ok |-> FALSE, payload |-> NoPayload]
    ELSE IF normalize_action(args[1]) = "create_task"
    THEN [ok |-> TRUE,
          payload |-> [action |-> "create_task", task_id |-> "", title |-> args[2]]]
    ELSE [ok |-> TRUE,
          payload |-> [action |-> normalize_action(args[1]), task_id |-> args[2],
                       title |-> ""]]

\* a retry that gives up one attempt later
retry_exhausted_late(attempts, max_attempts) == attempts > max_attempts

\* "if attempts >= max_attempts"
retry_exhausted(attempts, max_attempts) == attempts >= max_attempts

\* the task the action leaves in place of task t
apply_to_task(t, action) ==
    IF action = "mark_done" THEN [t EXCEPT !.status = "DONE"]
    ELSE IF action = "mark_error" THEN [t EXCEPT !.status = "ERROR"]
    ELSE IF action = "skip_task" THEN [t EXCEPT !.status = "SKIPPED"]
    ELSE IF action = "retry_task"
    THEN IF retry_exhausted(t.attempts, t.max_attempts)
         THEN [t EXCEPT !.status = "ERROR"]
         ELSE [t EXCEPT !.status = "IN_PROGRESS", !.attempts = @ + 1]
    ELSE t

\* the position of the task with that id, 0 when the list has none
task_index(tasks, task_id) ==
    IF \E i \in 1..Len(tasks) : tasks[i].id = task_id
    THEN CHOOSE i \in 1..Len(tasks) : tasks[i].id = task_id
    ELSE 0

\* apply_action(state, payload) on the two context keys
apply_action(scf, payload) ==
    IF payload.action = "create_task"
    THEN [scf EXCEPT
             !.scf_tasks = Append(@, [id |-> new_id(scf.scf_tasks), status |-> "PENDING",
                                      attempts |-> 0,
                                      max_attempts |-> DEFAULT_MAX_ATTEMPTS]),
             !.scf_current_task_id = new_id(scf.scf_tasks),
             !.loopback = "absent"]
    ELSE LET i == task_index(scf.scf_tasks, payload.task_id)
         IN  IF i = 0 THEN [scf EXCEPT !.loopback = "absent"]
             ELSE [scf EXCEPT
                      !.scf_tasks[i] = apply_to_task(@, payload.action),
                      !.scf_current_task_id =
                          IF apply_to_task(scf.scf_tasks[i], payload.action).status
                                 = "IN_PROGRESS"
                          THEN payload.task_id ELSE "",
                      !.loopback =
                          IF apply_to_task(scf.scf_tasks[i], payload.action).status
                                 = "IN_PROGRESS"
                          THEN "true" ELSE "false"]

\* "active = [t for t in tasks if status in {PENDING, IN_PROGRESS}]"
active(tasks) ==
    {i \in 1..Len(tasks) : tasks[i].status \in {"PENDING", "IN_PROGRESS"}}

\* the scf_tasks branch of _single_tool_call: validation, the guard on
\* create_task, apply_action; rejected stands for "return error(...)"
scf_tasks_branch(scf, args) ==
    LET v == validate_args(args)
        i == task_index(scf.scf_tasks, v.payload.task_id)
        seen == [scf EXCEPT !.payload = v.payload,
                            !.before = IF i = 0 THEN NoTask ELSE scf.scf_tasks[i],
                            !.rejected = FALSE]
    IN  IF ~v.ok \/ (v.payload.action = "create_task" /\ active(scf.scf_tasks) # {})
        THEN [seen EXCEPT !.rejected = TRUE, !.loopback = "false"]
        ELSE apply_action(seen, v.payload)

\* the delta's flags as the router reads them after tool_call
scf_tasks_update(scf) ==
    IF scf.loopback = "absent" THEN tool_update(<<"status">>)
    ELSE with_loopback(tool_update(<<"status">>), scf.loopback = "true")

\* argument lists the model may send
TaskArgs ==
    {<<>>, <<"bogus", "t1">>, <<"retry_task">>, <<"create_task", "title">>}
        \cup {<<a, TaskIds[i]>> :
                 a \in (ALLOWED_ACTIONS \ {"create_task"}) \cup {"retry"},
                 i \in 1..(MaxTasks + 1)}

\* the call asks for a new task
creates(args) == args # <<>> /\ normalize_action(args[1]) = "create_task"

\* one scf_tasks call of a tool_call node that follows LLM_chat; the list
\* holds at most MaxTasks tasks
ScfTasksCall(c, args) ==
    LET p == proc[c]
        scf == scf_tasks_branch(p.scf, args)
    IN  /\ creates(args) => Len(p.scf.scf_tasks) < MaxTasks
        /\ proc' = [proc EXCEPT ![c] =
               [p EXCEPT !.op = "scf_tasks", !.last_node = "tool_call",
                         !.scf = [scf EXCEPT !.next =
                                     route_from_tool_call(
                                         apply_update(LLM_chat_reset(EmptyState),
                                                      scf_tasks_update(scf)))]]]
        /\ UNCHANGED <<cfg, sessions, live, closed_sessions, session_locks,
                       turn_tokens, redis, redis_keys, checkpoint, ncalls, ninits,
                       last_tracked, init_log>>

NextTasks == \E args \in TaskArgs : ScfTasksCall("c1", args)

SpecTasks == InitTasks /\ [][NextTasks]_vars

InitResume == cfg = "resume" /\ InitVars
SpecResume == InitResume /\ [][Next]_vars
InitPair == cfg = "pair" /\ InitVars
SpecPair == InitPair /\ [][Next]_vars
SpecOverlap == InitOverlap /\ [][Next]_vars
SpecTools == InitTools /\ [][Next]_vars
InitBatch == cfg = "batch" /\ InitVars
SpecBatch == InitBatch /\ [][Next]_vars
InitStale == cfg = "stale" /\ InitVars
SpecStale == InitStale /\ [][Next]_vars

(* ------------------------------------------------------------------ *)
(* Properties                                                          *)
(* ------------------------------------------------------------------ *)
\* the turn of c is past its first lock block and has not committed yet
InProgress(c) ==
    proc[c].pc \in {"stream", "LLM_chat", "llm_call", "tool_call", "ack_end",
                    "post", "commit"}

\* ... and a model or tool phase of it is running or has run
PhaseStarted(c) ==
    InProgress(c) /\ (proc[c].pc = "llm_call" \/ proc[c].steps >= 1)

\* C1: two process_message calls on the same session id never both have a
\* model/tool phase started while neither has committed: the phases of the
\* later turn do not run while the earlier one is still in progress.
C1_OneTurnPerSession ==
    \A c1 \in Callers, c2 \in Callers :
        (c1 # c2 /\ proc[c1].sid = proc[c2].sid)
            => ~(PhaseStarted(c1) /\ PhaseStarted(c2))

\* C2: whenever LLM_chat is about to call the model, the flag
\* tool_should_loopback it reads is true, also when the previous turn's last
\* tool left it false in the checkpoint; and the delta LLM_chat returns
\* carries true.
C2_LoopbackTrueInModelTurn ==
    \A c \in Callers :
        /\ proc[c].pc = "llm_call" => proc[c].st.tool_should_loopback
        /\ proc[c].last_node = "LLM_chat" =>
              /\ "tool_should_loopback" \in proc[c].delta.keys
              /\ proc[c].delta.tool_should_loopback

\* a model turn entered with a stale false in the checkpoint
C2_Witness ==
    \E c \in Callers : proc[c].pc = "llm_call" /\ proc[c].stale_entry

\* C3: after tool_call has run a batch of any length, its delta sets
\* requested_tools to empty and the state the router sees no longer holds
\* the batch.
C3_RequestedToolsCleared ==
    \A c \in Callers :
        (proc[c].last_node = "tool_call" /\ proc[c].pc \in {"LLM_chat", "ack_end"})
            => /\ "requested_tools" \in proc[c].delta.keys
               /\ proc[c].delta.requested_tools = <<>>
               /\ proc[c].st.requested_tools = <<>>

\* C4: an executed call of a tracked tool carries a loop warning exactly
\* when it is the 3rd or a later one in a run of consecutive identical
\* calls on the session, across turns and inside a batch, successful or not.
C4_WarningOnThirdIdenticalCall ==
    \A c \in Callers :
        \A i \in 1..Len(proc[c].calls) :
            LET call == proc[c].calls[i]
            IN  (call.tracked /\ ~call.cancelled)
                    => (call.warned <=> call.run >= LoopThreshold)

\* some call of the last tool_call failed validation
FailedInLastBatch(c) ==
    \E i \in 1..Len(proc[c].calls) : proc[c].calls[i].failed

\* the delta of a tool_call in which a call failed validation
ValidationDelta(c) ==
    (proc[c].last_node = "tool_call" /\ FailedInLastBatch(c))
        => /\ "tool_should_loopback" \in proc[c].delta.keys
           /\ ~proc[c].delta.tool_should_loopback
           /\ "verr" \in SeqToSet(proc[c].delta.messages)

\* C5 as stated: a validation failure gives a delta with loopback false and
\* a tool_validation_error message, and the turn then goes to silent_end
\* with no further model turn.
C5_FailureGoesToSilentEnd ==
    \A c \in Callers :
        /\ ValidationDelta(c)
        /\ proc[c].failed_call =>
              /\ ~proc[c].llm_after_fail
              /\ proc[c].pc \in {"ack_end", "post", "commit", "credits", "credits_wait",
                              "done"}
              /\ proc[c].pc = "done" => proc[c].outcome = "returned"

\* C5: a validation failure gives a delta with loopback false and a
\* tool_validation_error message, the router picks ack_end and LLM_chat
\* never runs again in that turn; the turn ends in silent_end unless the
\* failing tool_call spent the last allowed step, in which case it ends with
\* the limit-exceeded outcome.
C5_FailureEndsTurn ==
    \A c \in Callers :
        /\ ValidationDelta(c)
        /\ proc[c].failed_call =>
              /\ ~proc[c].llm_after_fail
              /\ proc[c].pc \in {"ack_end", "post", "commit", "credits", "credits_wait",
                              "done"}
              /\ proc[c].pc = "done" =>
                    \/ proc[c].outcome = "returned"
                    \/ proc[c].outcome = "limit" /\ proc[c].steps = RecursionLimit

\* a call failed inside a batch of two and the turn returned
C5_Witness ==
    \E c \in Callers :
        /\ Len(proc[c].calls) >= 2
        /\ FailedInLastBatch(c)
        /\ proc[c].failed_call
        /\ proc[c].outcome = "returned"

\* every tool name some entry point offers
KnownTools ==
    UNION {supported_tools(e) : e \in {"project_view", "scf_config", "onboarding"}}

\* C6: a call whose name is unknown, or known but not offered at the
\* session's entry point, runs no handler and yields a validation error.
C6_UnsupportedToolNeverRuns ==
    \A c \in Callers :
        \A i \in 1..Len(proc[c].calls) :
            LET call == proc[c].calls[i]
            IN  (call.name \notin KnownTools
                   \/ call.name \notin supported_tools(call.entry_point))
                    => /\ call.handler = ""
                       /\ call.failed
                       /\ ValidationDelta(c)

\* a known tool requested at an entry point that does not offer it
C6_Witness ==
    \E c \in Callers :
        \E i \in 1..Len(proc[c].calls) :
            LET call == proc[c].calls[i]
            IN  /\ call.name \in KnownTools
                /\ call.name \notin supported_tools(call.entry_point)
                /\ call.failed

\* the last initialize_session found a snapshot whose owner is missing or
\* differs from the authenticated user
ResumeMismatch ==
    /\ init_log.found
    /\ \/ init_log.snapshot_user_id = ""
       \/ init_log.fresh_user_id = ""
       \/ init_log.snapshot_user_id # init_log.fresh_user_id

\* C7 as stated: a mismatched resume always deletes the snapshot, fails
\* initialization and creates no session from the snapshot.
C7_MismatchDeletesSnapshot ==
    ResumeMismatch
        => /\ init_log.raised
           /\ ~init_log.snapshot_left
           /\ init_log.sessions_untouched

\* C7: a mismatched resume always issues the delete of the snapshot (which
\* is gone whenever the store carries the delete out), fails initialization
\* and creates no session from the snapshot.
C7_MismatchFailsInit ==
    ResumeMismatch
        => /\ init_log.raised
           /\ init_log.delete_called
           /\ init_log.delete_ok => ~init_log.snapshot_left
           /\ init_log.sessions_untouched

\* a resume by another user whose snapshot was deleted
C7_Witness ==
    /\ ResumeMismatch
    /\ init_log.snapshot_user_id # ""
    /\ init_log.fresh_user_id # ""
    /\ init_log.raised
    /\ ~init_log.snapshot_left

\* C8: a turn that ends by cancellation returns nothing and has written
\* nothing to the Session.
C8_CancellationWritesNothing ==
    \A c \in Callers :
        proc[c].outcome = "cancelled"
            => /\ proc[c].ret = "NONE"
               /\ ~proc[c].wrote

\* C9: when the step limit is exceeded the call returns the fixed message,
\* no node runs beyond the limit, and pending_interrupt is false afterwards.
C9_LimitExceeded ==
    \A c \in Callers :
        proc[c].outcome = "limit"
            => /\ proc[c].pc = "done"
               /\ proc[c].ret = "limitmsg"
               /\ proc[c].steps = RecursionLimit
               /\ proc[c].sid \in live => ~sessions[proc[c].sid].pending_interrupt

\* a turn that hit the limit after a visible assistant message
C9_Witness ==
    \E c \in Callers :
        /\ proc[c].outcome = "limit"
        /\ proc[c].last_ai \notin {"NONE", "limitmsg"}

\* C10: a turn runs at most recursion_limit nodes and process_message then
\* returns with one of its outcomes.
C10_TurnEndsAndReturns ==
    \A c \in Callers :
        /\ proc[c].steps <= RecursionLimit
        /\ proc[c].pc = "done" =>
              proc[c].outcome \in {"returned", "cancelled", "limit",
                                   "not_initialized", "closed"}

\* C11: process_message never ends by propagating an exception: whatever
\* fails in a model phase, a tool phase or the commit, also when
\* cleanup_session removed the session while the turn was in flight, the
\* call ends with a returned message or null.
C11_NoExceptionPropagates ==
    \A c \in Callers :
        proc[c].outcome # "" =>
            /\ proc[c].outcome # "raised"
            /\ proc[c].pc = "done"

\* C12: calculate_credits_consumed(t) is t / 1000 for every t >= 0; the
\* amount update_user_credits sends is the ceiling of the credits it was
\* given, and it sends nothing rather than an amount of 0 or less.
C12_CreditMath ==
    \A c \in Callers :
        /\ proc[c].outcome = "calculated" =>
              proc[c].turn_credits * tokens_per_credit = proc[c].tokens * 1000
        /\ proc[c].credit_request # <<>> =>
              /\ proc[c].credit_request[1] >= 1
              /\ 1000 * (proc[c].credit_request[1] - 1) < proc[c].turn_credits
              /\ proc[c].turn_credits <= 1000 * proc[c].credit_request[1]
        /\ (proc[c].outcome = "credits_call" /\ proc[c].turn_credits <= 0) =>
              proc[c].credit_request = <<>>

\* a fraction of a credit is charged as one credit
C12_Witness ==
    \E c \in Callers :
        /\ proc[c].outcome = "credits_call"
        /\ proc[c].turn_credits \in 1..999
        /\ proc[c].credit_request = <<1>>

\* the subtraction request of c's turn has been sent and not yet answered
CreditCallOutstanding(c) == proc[c].pc = "credits_wait"

\* C13: the credit subtraction of a turn is requested only after the commit
\* lock was released, only when the turn consumed credits and the context
\* names an organisation, and the turn's response is handed to the caller
\* without waiting for the request: while the request is outstanding the
\* call has already returned.
C13_CreditCallDoesNotDelayResponse ==
    \A c \in Callers :
        /\ proc[c].credit_request # <<>> =>
              /\ proc[c].turn_credits > 0
              /\ proc[c].st.context.org_id # ""
        /\ CreditCallOutstanding(c) =>
              /\ session_locks[proc[c].sid] # c
              /\ proc[c].outcome = "returned"

\* A turn that returned to its caller, began on a session and a thread that
\* had never had a turn, and in which LLM_chat never asked for a tool.
FreshNoToolTurn(c) ==
    /\ proc[c].outcome = "returned"
    /\ proc[c].steps > 0
    /\ proc[c].fresh_thread
    /\ proc[c].session0.messages = <<>>
    /\ proc[c].session0.tool_call_traces = <<>>
    /\ ~proc[c].tool_requested

\* C14: on a fresh session a turn in which the model asks for no tool returns
\* exactly one assistant message, which is the only message the turn adds
\* after the user's; tokens_used grows by the tokens the turn metered,
\* credits_consumed by that amount divided by 1000, and no trace entry is
\* added.
C14_NoToolTurnAccounting ==
    \A c \in Callers :
        FreshNoToolTurn(c) =>
            /\ proc[c].ret \in {"text", "apology"}
            /\ proc[c].committed.messages = <<"user", proc[c].ret>>
            /\ proc[c].committed.tokens_used =
                   proc[c].session0.tokens_used + proc[c].metered
            /\ (proc[c].committed.credits_milli - proc[c].session0.credits_milli)
                   * tokens_per_credit = proc[c].metered * 1000
            /\ proc[c].committed.tool_call_traces = <<>>

\* C14 witness: such a turn returned after metering some tokens.
C14_Witness ==
    \E c \in Callers :
        /\ FreshNoToolTurn(c)
        /\ proc[c].metered > 0
        /\ proc[c].ret = "text"

\* The turn's last tool_call ran update_context alone, with valid arguments,
\* and the handler returned its delta.
UpdateContextTurn(c) ==
    /\ Len(proc[c].calls) = 1
    /\ proc[c].calls[1].name = "update_context"
    /\ proc[c].calls[1].handler = "update_context"
    /\ ~proc[c].calls[1].failed
    /\ ~proc[c].calls[1].cancelled

\* what C15 and its original statement share: the delta has loopback false,
\* LLM_chat does not run again, a returned turn returns null and leaves
\* pending_interrupt as it was
UpdateContextSilent(c) ==
    /\ "tool_should_loopback" \in proc[c].tool_delta.keys
    /\ ~proc[c].tool_delta.tool_should_loopback
    /\ ~proc[c].llm_after_tool
    /\ proc[c].pc \in {"ack_end", "post", "commit", "credits", "credits_wait", "done"}
    /\ proc[c].outcome = "returned" =>
          /\ proc[c].ret = "NONE"
          /\ proc[c].committed.pending_interrupt = proc[c].session0.pending_interrupt

\* C15 as stated: the update_context turn ends with loopback false and no
\* further model turn, records exactly one internal status message, returns
\* null from process_message and leaves pending_interrupt unchanged.
C15_UpdateContextReturnsNull ==
    \A c \in Callers :
        UpdateContextTurn(c) =>
            /\ UpdateContextSilent(c)
            /\ proc[c].tool_delta.messages = <<"status">>
            /\ proc[c].pc = "done" => proc[c].outcome = "returned"

\* C15: the update_context turn ends with loopback false and no further
\* model turn, records one internal status message (followed by a loop
\* warning when the call repeats the two before it), and leaves
\* pending_interrupt unchanged; process_message returns null unless the
\* tool_call spent the last allowed step, in which case the turn ends with
\* the limit-exceeded outcome.
C15_UpdateContextEndsSilently ==
    \A c \in Callers :
        UpdateContextTurn(c) =>
            /\ UpdateContextSilent(c)
            /\ proc[c].tool_delta.messages \in {<<"status">>, <<"status", "loopwarn">>}
            /\ proc[c].pc = "done" =>
                  \/ proc[c].outcome = "returned"
                  \/ proc[c].outcome = "limit" /\ proc[c].steps = RecursionLimit

\* C15 witness: an update_context turn returned null to its caller
C15_Witness ==
    \E c \in Callers :
        /\ UpdateContextTurn(c)
        /\ proc[c].outcome = "returned"
        /\ proc[c].ret = "NONE"
        /\ proc[c].tool_delta.messages = <<"status">>

\* The positions between lock blocks: the next step of the activation is a
\* model call, a tool call, a checkpoint or Redis call, or a backend call.
IOPositions ==
    {"stream", "LLM_chat", "llm_call", "tool_call", "ack_end", "post", "credits",
     "credits_wait", "save_io", "cleanup_del"}

\* C16: no model, tool, durable-store or backend call is made while a
\* session lock is held: an activation holds a lock only inside the body of
\* a lock block, and at every position from which it makes such a call it
\* holds none.
C16_NoIOUnderLock ==
    \A c \in Callers :
        /\ proc[c].pc \in IOPositions =>
              \A s \in SessionIds : session_locks[s] # c
        /\ \A s \in SessionIds :
              session_locks[s] = c =>
                  /\ proc[c].sid = s
                  /\ proc[c].pc \in {"decide", "commit", "save_read"}

\* C16 witness: the snapshot of a session that had a turn is about to be
\* written to Redis, after the lock block that copied it
C16_Witness ==
    \E c \in Callers :
        /\ proc[c].pc = "save_io"
        /\ proc[c].op = "cleanup"
        /\ proc[c].snapshot # NoSnapshot
        /\ sessions[proc[c].sid].messages # <<>>
        /\ session_locks[proc[c].sid] = ""

EarlyReturnCase(c) ==
    /\ proc[c].op = ""
    /\ proc[c].pc \notin {"idle", "decide"}
    /\ ~proc[c].was_known \/ proc[c].was_closed

\* C18: process_message for an unknown or closed session returns at once,
\* the error text for an unknown session and null for a closed one, without
\* running a graph step, a model call or a tool and without changing any
\* session.
C18_UnknownOrClosedReturnsAtOnce ==
    \A c \in Callers :
        EarlyReturnCase(c) =>
            /\ proc[c].pc = "done"
            /\ proc[c].outcome = IF proc[c].was_known THEN "closed" ELSE "not_initialized"
            /\ proc[c].ret = IF proc[c].was_known THEN "NONE" ELSE "notinit"
            /\ proc[c].steps = 0
            /\ proc[c].metered = 0
            /\ proc[c].calls = <<>>
            /\ proc[c].sessions_kept

\* C18 witness: a call for a live session that had been marked closed
\* returned null
C18_Witness ==
    \E c \in Callers :
        /\ EarlyReturnCase(c)
        /\ proc[c].was_known
        /\ proc[c].was_closed
        /\ proc[c].outcome = "closed"

\* C19: once a session is marked closed no model request is sent for it:
\* a metered call made for a closed session is cancelled before the request
\* and records no tokens.
C19_NoRequestAfterClose ==
    \A c \in Callers :
        /\ ~proc[c].sent_closed
        /\ proc[c].outcome = "cancelled" =>
              /\ proc[c].cancel_closed
              /\ proc[c].cancel_recorded = 0

\* C19 witness: a turn that had started on an open session was cancelled at
\* a model call after the session was marked closed
C19_Witness ==
    \E c \in Callers :
        /\ proc[c].outcome = "cancelled"
        /\ proc[c].was_known
        /\ ~proc[c].was_closed
        /\ proc[c].sid \in closed_sessions
        /\ proc[c].metered > 0

\* between the first lock block and the commit block of a turn
TurnInFlight(c) ==
    proc[c].pc \in {"stream", "LLM_chat", "llm_call", "tool_call", "ack_end", "post",
                    "commit"}

\* C20: with turns of two different sessions running at the same time, the
\* tokens a turn's model calls record go to its own session only: the
\* session's per-turn counter holds what the turn metered, and the commit
\* adds exactly that to the session's tokens_used.
C20_TokensStayInSession ==
    \A c \in Callers :
        /\ TurnInFlight(c) => turn_tokens[proc[c].sid] = proc[c].metered
        /\ (proc[c].outcome = "returned" /\ proc[c].steps > 0) =>
              proc[c].committed.tokens_used =
                  proc[c].session0.tokens_used + proc[c].metered

\* C20 witness: a turn returned after metering tokens while the turn of
\* the other session, which has metered tokens too, is still in flight
C20_Witness ==
    \E c, d \in Callers :
        /\ proc[c].sid # proc[d].sid
        /\ proc[c].outcome = "returned"
        /\ proc[c].metered > 0
        /\ TurnInFlight(d)
        /\ proc[d].metered > 0

\* the last initialize_session resumed a snapshot / so did one before it
Resumed == init_log.resumed.resume # ""
ResumedBefore == init_log.prev_resumed.resume # ""

\* C22: a resume that succeeds leaves the stored snapshot in place and
\* unmodified, and two resumes of the same stored snapshot with the same
\* user id and entry point restore sessions with identical contents.
C22_ResumeIdempotent ==
    /\ Resumed =>
          /\ init_log.snapshot_left
          /\ init_log.resumed.stored_after = init_log.resumed.snapshot
    /\ (Resumed /\ ResumedBefore
           /\ init_log.prev_resumed.resume = init_log.resumed.resume
           /\ init_log.prev_resumed.snapshot = init_log.resumed.snapshot
           /\ init_log.prev_resumed.user = init_log.resumed.user
           /\ init_log.prev_resumed.entry_point = init_log.resumed.entry_point)
          => init_log.resumed.restored = init_log.prev_resumed.restored

\* C22 witness: the snapshot of a session that had a turn was resumed twice
\* with the same user id and entry point
C22_Witness ==
    /\ Resumed
    /\ ResumedBefore
    /\ init_log.prev_resumed.resume = init_log.resumed.resume
    /\ init_log.prev_resumed.entry_point = init_log.resumed.entry_point
    /\ init_log.resumed.restored.messages # <<>>

\* the restored session and the snapshot agree outside the context
RestoredOutsideContext ==
    /\ serialize_messages(init_log.resumed.restored.messages) =
           init_log.resumed.snapshot.messages
    /\ init_log.resumed.restored.tokens_used = init_log.resumed.snapshot.tokens_used
    /\ init_log.resumed.restored.credits_milli = init_log.resumed.snapshot.credits_milli
    /\ init_log.resumed.restored.tool_call_traces =
           init_log.resumed.snapshot.tool_call_traces

\* C23 as stated: for every entry point the restored session equals the
\* snapshot in every field except the context's entry_point, which is the
\* new connection's.
C23_RestoredEqualsSnapshot ==
    Resumed =>
        /\ RestoredOutsideContext
        /\ init_log.resumed.restored.context =
               [init_log.resumed.snapshot.context EXCEPT
                    !.entry_point = init_log.resumed.entry_point]

\* C23: the restored session equals the snapshot in every field except the
\* context's entry_point, which is the new connection's, and the context's
\* scf_redirected, which is true when the new entry point is scf_config.
C23_RestoredExceptEntryPoint ==
    Resumed =>
        /\ RestoredOutsideContext
        /\ init_log.resumed.restored.context =
               [init_log.resumed.snapshot.context EXCEPT
                    !.entry_point = init_log.resumed.entry_point,
                    !.scf_redirected =
                        IF init_log.resumed.entry_point = "scf_config" THEN TRUE ELSE @]

\* C23 witness: a snapshot taken at one entry point was resumed at another
C23_Witness ==
    /\ Resumed
    /\ init_log.resumed.snapshot.context.entry_point # init_log.resumed.entry_point
    /\ init_log.resumed.restored.context.entry_point = init_log.resumed.entry_point
    /\ init_log.resumed.restored.messages # <<>>

\* C24: cleanup_session tries the snapshot write before it removes the
\* session, and removes the session whether or not the write succeeded:
\* when it returns, the write has been tried and the id is no longer a key
\* of self.sessions; a failed write leaves Redis as it was.
C24_CleanupRemovesAfterSave ==
    \A c \in Callers :
        /\ proc[c].pc = "cleanup_del" => proc[c].save_attempted
        /\ proc[c].outcome = "cleaned" =>
              /\ proc[c].save_attempted
              /\ ~proc[c].known_after

\* C24 witness: a cleanup whose snapshot write failed removed the session
C24_Witness ==
    \E c \in Callers :
        /\ proc[c].outcome = "cleaned"
        /\ ~proc[c].save_ok
        /\ proc[c].snapshot.messages # <<>>
        /\ proc[c].sid \notin live

\* the node the router's reading of the flags it saw should pick after
\* LLM_chat
ExpectedAfterModelTurn(c) ==
    IF proc[c].saw.has_workflow THEN "workflow"
    ELSE IF proc[c].saw.has_tool_call THEN "tool_call" ELSE "ack_end"

\* C25: the phase that runs after a model turn is workflow_execution when a
\* workflow is requested, else tool_execution when a tool is requested, else
\* silent_end; a requested workflow wins over a requested tool.
C25_RouteAfterModelTurn ==
    \A c \in Callers :
        /\ proc[c].after = "LLM_chat" => proc[c].ran = ExpectedAfterModelTurn(c)
        /\ (proc[c].last_node = "LLM_chat" /\ proc[c].pc \in GraphNodes)
              => /\ proc[c].st.has_workflow => proc[c].pc = "workflow"
                 /\ proc[c].pc # "LLM_chat"

\* C25 witness: the workflow node runs after a model turn that left both a
\* workflow and a tool requested
C25_Witness ==
    \E c \in Callers :
        /\ proc[c].after = "LLM_chat"
        /\ proc[c].ran = "workflow"
        /\ proc[c].saw.has_workflow
        /\ proc[c].saw.has_tool_call

\* the value the router reads after the last tool_call: what the tools
\* wrote, or the default when no executed tool wrote the flag
LoopbackAfterTools(c) ==
    IF "tool_should_loopback" \in proc[c].tool_delta.keys
    THEN proc[c].tool_delta.tool_should_loopback
    ELSE TRUE

\* C26: the phase that runs after a tool_execution is model_turn when
\* tool_should_loopback is true or no executed tool wrote it, and silent_end
\* when it is false; nothing else follows tool_execution.
C26_RouteAfterToolExecution ==
    \A c \in Callers :
        /\ proc[c].after = "tool_call" =>
              /\ proc[c].ran \in {"LLM_chat", "ack_end"}
              /\ proc[c].ran = "LLM_chat" <=> LoopbackAfterTools(c)
        /\ (proc[c].last_node = "tool_call" /\ proc[c].pc \in GraphNodes)
              => proc[c].pc = (IF LoopbackAfterTools(c) THEN "LLM_chat" ELSE "ack_end")

\* C26 witness: a model turn runs after a tool_execution whose tools did not
\* write the flag
C26_Witness ==
    \E c \in Callers :
        /\ proc[c].after = "tool_call"
        /\ proc[c].ran = "LLM_chat"
        /\ "tool_should_loopback" \notin proc[c].tool_delta.keys

\* the helpers evaluate_single_project_document has called
Called(c, helper) == helper \in SeqToSet(proc[c].ev.log)

\* C27: the evidence helper is called exactly when update_document
\* succeeded and the score is at least 15; when the update failed or the
\* score is lower, the helper is not called and the result reports
\* evidence.processed = false.
C27_EvidenceOnlyWhenUpdatedAndRelevant ==
    \A c \in Callers :
        (proc[c].op = "evaluate_document" /\ proc[c].pc = "done") =>
            /\ Called(c, "evidence") <=>
                  /\ Called(c, "update_document")
                  /\ proc[c].ev.update_result.success
                  /\ proc[c].ev.score_int >= 15
            /\ (Called(c, "update_document") /\ ~Called(c, "evidence"))
                  => proc[c].ev.result.evidence = "not_processed"

\* C27 witness: a document with score 15 was updated and its evidence
\* requests were evaluated
C27_Witness ==
    \E c \in Callers :
        /\ proc[c].pc = "done"
        /\ proc[c].ev.score_int = 15
        /\ proc[c].ev.result.updated
        /\ Called(c, "evidence")
        /\ proc[c].ev.result.evidence = "processed"

\* C28: update_document is called only after read_full_document and the
\* writer evaluation have both succeeded; a call with an empty document id
\* fails without reading and without calling the writer; a failed read is
\* returned (its error and status code) and update_document is not called.
C28_UpdateOnlyAfterReadAndWriter ==
    \A c \in Callers :
        proc[c].op = "evaluate_document" =>
            /\ Called(c, "update_document") =>
                  /\ proc[c].ev.full_result.success
                  /\ proc[c].ev.eval_success
                  /\ SubSeq(proc[c].ev.log, 1, 3)
                        = <<"read_full_document", "writer", "update_document">>
            /\ proc[c].ev.document_id = "" =>
                  /\ proc[c].pc = "done"
                  /\ ~proc[c].ev.result.success
                  /\ proc[c].ev.log = <<>>
            /\ (Called(c, "read_full_document") /\ ~proc[c].ev.full_result.success) =>
                  /\ proc[c].pc = "done"
                  /\ ~proc[c].ev.result.success
                  /\ proc[c].ev.result.error = proc[c].ev.full_result.error
                  /\ proc[c].ev.result.status_code = proc[c].ev.full_result.status_code
                  /\ proc[c].ev.log = <<"read_full_document">>

\* C28 witness: the read answered 404 and the call returned that failure
C28_Witness ==
    \E c \in Callers :
        /\ proc[c].op = "evaluate_document"
        /\ proc[c].pc = "done"
        /\ proc[c].ev.full_result.status_code = 404
        /\ proc[c].ev.result.status_code = 404
        /\ proc[c].ev.result.error = "not_found"
        /\ proc[c].ev.log = <<"read_full_document">>

\* C29: for every document text and every list of insert operations, a
\* second application of _apply_insert_operations with the same operations
\* to the text the first application returned leaves that text unchanged.
C29_SecondApplicationChangesNothing ==
    \A c \in Callers :
        (proc[c].op = "apply_insert_operations" /\ proc[c].ins.runs = 2)
            => proc[c].ins.second = proc[c].ins.first

\* C30: a tracked call carries a loop warning only if it and the two
\* tracked calls executed immediately before it on the session have the
\* same tool name and the same arguments; calls of the same tool with a
\* call to another tracked tool between them are not consecutive.
C30_WarningOnlyAfterThreeInARow ==
    \A c \in Callers :
        \A i \in 1..Len(proc[c].calls) :
            (proc[c].calls[i].tracked /\ proc[c].calls[i].warned)
                => proc[c].calls[i].run >= LoopThreshold

(* ------------------------------------------------------------------ *)
(* C31: where a batch stops                                            *)
(* ------------------------------------------------------------------ *)
\* the call ends the batch: it reported an error, or it is configure_scf
EndsBatch(info) == info.errored \/ info.name = "configure_scf"

\* the executed calls are the first calls of the batch, each once, in order
RanPrefixOf(calls, batch) ==
    /\ Len(calls) <= Len(batch)
    /\ \A i \in 1..Len(calls) :
           /\ calls[i].name = tool_name_mapping(batch[i].name)
           /\ calls[i].args = batch[i].args

\* C31: in a batch no call after the first call that reports an error is
\* executed, and none after configure_scf; every call before that point is
\* executed exactly once, in order, and sees the state left by the calls
\* before it.
C31_BatchStopsAtFirstError ==
    \A c \in Callers :
        LET calls == proc[c].calls
            batch == proc[c].batch
        IN  (proc[c].last_node = "tool_call" /\ Len(batch) > 1
                /\ proc[c].outcome # "cancelled") =>
                /\ RanPrefixOf(calls, batch)
                /\ \A i \in 1..Len(calls) :
                       /\ i < Len(calls) => ~EndsBatch(calls[i])
                       /\ i > 1 => calls[i].seen = calls[i - 1].left
                /\ Len(calls) < Len(batch) => EndsBatch(calls[Len(calls)])

(* ------------------------------------------------------------------ *)
(* C32: the trace after a tool_call node                               *)
(* ------------------------------------------------------------------ *)
\* tool and arguments of the trace entries
RECURSIVE TraceCalls(_)
TraceCalls(traces) ==
    IF traces = <<>> THEN <<>>
    ELSE <<[tool |-> traces[1].tool, args |-> traces[1].args]>>
             \o TraceCalls(Tail(traces))

\* one entry per executed tracked call, in order
RECURSIVE TrackedCalls(_)
TrackedCalls(calls) ==
    IF calls = <<>> THEN <<>>
    ELSE (IF calls[1].tracked /\ ~calls[1].cancelled
          THEN <<[tool |-> calls[1].name, args |-> calls[1].args]>> ELSE <<>>)
             \o TrackedCalls(Tail(calls))

\* C32: after a tool_execution phase that executed K tracked calls, the
\* trace is the trace before the phase followed by exactly one entry per
\* executed tracked call, in order; no earlier entry is duplicated or
\* reordered.
C32_TraceGrowsByExecutedCalls ==
    \A c \in Callers :
        (proc[c].last_node = "tool_call" /\ proc[c].outcome # "cancelled") =>
            TraceCalls(proc[c].st.tool_call_traces) =
                TraceCalls(proc[c].traces_before) \o TrackedCalls(proc[c].calls)

(* ------------------------------------------------------------------ *)
(* C33: the cap of the trace                                           *)
(* ------------------------------------------------------------------ *)
\* the entries the executed tracked calls append, in order
RECURSIVE NewEntries(_)
NewEntries(calls) ==
    IF calls = <<>> THEN <<>>
    ELSE (IF calls[1].tracked /\ ~calls[1].cancelled
          THEN <<[tool |-> calls[1].name, args |-> calls[1].args,
                  status |-> IF calls[1].failed THEN "error" ELSE "success"]>>
          ELSE <<>>)
             \o NewEntries(Tail(calls))

\* C33: the trace holds at most 100 entries; when an append would make it
\* exceed 100, the oldest entries are dropped and the most recent 100 kept.
C33_TraceKeepsMostRecentHundred ==
    \A c \in Callers :
        /\ Len(proc[c].st.tool_call_traces) <= TraceCap
        /\ (proc[c].last_node = "tool_call"
               /\ Len(proc[c].traces_before) + Len(NewEntries(proc[c].calls)) > TraceCap)
              => proc[c].st.tool_call_traces =
                     LastN(proc[c].traces_before \o NewEntries(proc[c].calls), TraceCap)

\* a batch of two tracked calls ran on a full trace
C33_Witness ==
    \E c \in Callers :
        /\ proc[c].last_node = "tool_call"
        /\ Len(proc[c].traces_before) = TraceCap
        /\ Len(NewEntries(proc[c].calls)) = 2
        /\ Len(proc[c].st.tool_call_traces) = TraceCap

(* ------------------------------------------------------------------ *)
(* C34: the retries of LLM_chat and the apology                        *)
(* ------------------------------------------------------------------ *)
\* C34: in one model_turn the LLM is invoked at most 3 times (1 + up to 2
\* retries); if every attempt fails and nothing can be salvaged, the phase
\* emits the generic apology as its assistant message and requests no tool
\* or workflow, so the turn goes to silent_end.
C34_ApologyEndsTheTurn ==
    \A c \in Callers :
        /\ proc[c].attempt + 1 <= max_retries + 1
        /\ (proc[c].last_node = "LLM_chat" /\ proc[c].pc \in Nodes
               /\ proc[c].llm_failed = max_retries + 1)
              => /\ proc[c].delta.messages = <<"apology">>
                 /\ "has_tool_call" \notin proc[c].delta.keys
                 /\ "has_workflow" \notin proc[c].delta.keys
                 /\ proc[c].pc = "ack_end"

(* ------------------------------------------------------------------ *)
(* C35: tools run only when the turn's model asked for them            *)
(* ------------------------------------------------------------------ *)
\* C35: tool_execution runs only tools requested by a model_turn of that
\* same turn; flags or batches left in the persisted routing state by an
\* earlier turn that ended abnormally never cause a tool to run in a later
\* turn whose model requested none.
C35_ToolsOnlyWhenRequestedThisTurn ==
    \A c \in Callers :
        proc[c].last_node = "tool_call" => RanPrefixOf(proc[c].calls, proc[c].asked)

(* ------------------------------------------------------------------ *)
(* C36: what process_message returns                                   *)
(* ------------------------------------------------------------------ *)
\* the response is the text of a message LLM_chat emitted in this turn
SaidThisTurn(c, ret) ==
    \/ ret \in proc[c].said /\ ret # "empty"
    \/ ret = "EMPTYSTR" /\ "empty" \in proc[c].said

\* C36: the text process_message returns is never the content of an
\* internal-only message (a tool-status notice or a loop warning); a
\* non-null response is the text of a model_turn assistant message of the
\* current turn, also when the model's final reply text is empty.
C36_ResponseIsModelText ==
    \A c \in Callers :
        (proc[c].outcome = "returned" /\ proc[c].last_node = "ack_end") =>
            /\ proc[c].ret \notin InternalMsgs
            /\ proc[c].ret # "NONE" => SaidThisTurn(c, proc[c].ret)

(* ------------------------------------------------------------------ *)
(* C37: the message history of a session                               *)
(* ------------------------------------------------------------------ *)
IsPrefix(a, b) == Len(a) <= Len(b) /\ SubSeq(b, 1, Len(a)) = a

\* C37: the session message history only grows: the messages the session
\* held before a completed turn (messages restored from a snapshot and the
\* onboarding welcome messages included) are a prefix of the messages it
\* holds after the turn.
C37_HistoryOnlyGrows ==
    \A c \in Callers :
        proc[c].outcome = "returned" =>
            IsPrefix(proc[c].session0.messages, proc[c].committed.messages)

(* ------------------------------------------------------------------ *)
(* C38: tokens_used and credits_consumed of a session                  *)
(* ------------------------------------------------------------------ *)
\* the commit block of c's turn adds the tokens that turn metered
CommitAddsOwnTokens(c, s) ==
    /\ proc[c].pc = "commit" /\ proc[c].sid = s
    /\ sessions'[s].tokens_used = sessions[s].tokens_used + proc[c].metered

CreditsMatchTokens(s) ==
    sessions[s].credits_milli * tokens_per_credit = sessions[s].tokens_used * 1000

C39_AtMostOneActiveTask ==
    \A c \in Callers : Cardinality(active(proc[c].scf.scf_tasks)) <= 1

\* the task the last call named, as it is now
TaskNow(c) ==
    proc[c].scf.scf_tasks[task_index(proc[c].scf.scf_tasks, proc[c].scf.before.id)]

\* the last call was a retry_task that found its task
Retried(c) ==
    /\ proc[c].scf.payload.action = "retry_task"
    /\ ~proc[c].scf.rejected
    /\ proc[c].scf.before.id # ""

\* C40: attempts <= max_attempts for every task; retry_task increments
\* attempts and sets IN_PROGRESS with loopback only while attempts <
\* max_attempts; a retry at attempts = max_attempts sets ERROR, clears the
\* current task id and ends the turn (tool_should_loopback = false).
C40_RetryBoundedByMaxAttempts ==
    \A c \in Callers :
        /\ \A i \in 1..Len(proc[c].scf.scf_tasks) :
               proc[c].scf.scf_tasks[i].attempts <= proc[c].scf.scf_tasks[i].max_attempts
        /\ Retried(c) =>
              IF proc[c].scf.before.attempts < proc[c].scf.before.max_attempts
              THEN /\ TaskNow(c).status = "IN_PROGRESS"
                   /\ TaskNow(c).attempts = proc[c].scf.before.attempts + 1
                   /\ proc[c].scf.scf_current_task_id = proc[c].scf.before.id
                   /\ proc[c].scf.loopback = "true"
                   /\ proc[c].scf.next = "LLM_chat"
              ELSE /\ proc[c].scf.before.attempts = proc[c].scf.before.max_attempts
                   /\ TaskNow(c).status = "ERROR"
                   /\ TaskNow(c).attempts = proc[c].scf.before.attempts
                   /\ proc[c].scf.scf_current_task_id = ""
                   /\ proc[c].scf.loopback = "false"
                   /\ proc[c].scf.next = "ack_end"

\* a task that had used all its attempts was retried
C40_Witness ==
    \E c \in Callers :
        /\ Retried(c)
        /\ proc[c].scf.before.attempts = DEFAULT_MAX_ATTEMPTS
        /\ TaskNow(c).status = "ERROR"

====
